---------------------------- MODULE Spec2Model ----------------------------
(***************************************************************************)
(* A model of zooy's declarative data binding:                             *)
(*   - DataBinder (src/src/ui/data-binder.js): getData / setData / render  *)
(*     / dispose, the four simple-binding passes, template consumers,      *)
(*     lifecycle and pagination events;                                    *)
(*   - Binder (src/src/ui/binder.js): fetchData / setData / render, the    *)
(*     two simple-binding passes, template consumers, url parameters;      *)
(*   - the Binder-backed Carbon table (src/unnamed/part_001): the initial  *)
(*     fetch, the page navigation, page size and search handlers.          *)
(*                                                                         *)
(* The DOM is a tree of element records, JSON and JavaScript values are    *)
(* tagged records, and every handler of the code is one action.            *)
(***************************************************************************)
EXTENDS Integers, Sequences, FiniteSets, TLC

(***************************************************************************)
(* Bounds of the model.                                                    *)
(***************************************************************************)
\* how many getData / fetchData / setData / handler operations a run performs
MaxOps == 2
MaxPagerOps == 4
MaxLoads == 3
MaxModalOps == 3
MaxStampOps == 4
MaxViews == 3
MaxSwitches == 5
\* the largest page number the paginator is navigated to
MaxPage == 3

(***************************************************************************)
(* JavaScript values.                                                      *)
(***************************************************************************)
Undefined == [t |-> "undefined"]
JNull == [t |-> "null"]
NaN == [t |-> "NaN"]
JBool(b) == [t |-> "boolean", b |-> b]
JNum(n) == [t |-> "number", n |-> n]
JStr(s) == [t |-> "string", s |-> s]
JArr(a) == [t |-> "array", a |-> a]
JObj(o) == [t |-> "object", o |-> o]
\* the rejected Promise that Promise.reject(new Error(...)) evaluates to
RejectedPromise == [t |-> "promise", error |-> "HTTP error"]

\* badu's isDefAndNotNull
isDefAndNotNull(v) == v.t \notin {"undefined", "null"}

\* JavaScript truthiness (ToBoolean)
Truthy(v) ==
  CASE v.t \in {"undefined", "null", "NaN"} -> FALSE
    [] v.t = "boolean" -> v.b
    [] v.t = "number" -> v.n # 0
    [] v.t = "string" -> v.s # ""
    [] OTHER -> TRUE

Digits == <<"0", "1", "2", "3", "4", "5", "6", "7", "8", "9">>

RECURSIVE NatToString(_)
NatToString(n) ==
  IF n < 10 THEN Digits[n + 1]
  ELSE NatToString(n \div 10) \o Digits[(n % 10) + 1]

\* Number.prototype.toString for an integer
IntToString(n) == IF n < 0 THEN "-" \o NatToString(-n) ELSE NatToString(n)

RECURSIVE JoinStrings(_)
JoinStrings(ss) ==
  IF ss = <<>> THEN ""
  ELSE IF Len(ss) = 1 THEN ss[1]
  ELSE ss[1] \o "," \o JoinStrings(Tail(ss))

\* String(v): what setAttribute and the textContent setter make of a value
RECURSIVE ToJSString(_)
ToJSString(v) ==
  CASE v.t = "undefined" -> "undefined"
    [] v.t = "null" -> "null"
    [] v.t = "NaN" -> "NaN"
    [] v.t = "boolean" -> IF v.b THEN "true" ELSE "false"
    [] v.t = "number" -> IntToString(v.n)
    [] v.t = "string" -> v.s
    [] v.t = "array" ->
         JoinStrings([i \in 1..Len(v.a) |->
            IF isDefAndNotNull(v.a[i]) THEN ToJSString(v.a[i]) ELSE ""])
    [] v.t = "promise" -> "[object Promise]"
    [] OTHER -> "[object Object]"

\* the numbers parseInt can return in this model
ParseRange == (0 - 9)..99

\* parseInt(s): the integer whose decimal form is s, NaN for any other string
\* of the model (the strings of the model are integers or start with a letter)
parseInt(s) ==
  IF \E n \in ParseRange : IntToString(n) = s
  THEN JNum(CHOOSE n \in ParseRange : IntToString(n) = s)
  ELSE NaN

\* a + b on numbers
JSAdd(a, b) == IF a.t = "number" /\ b.t = "number" THEN JNum(a.n + b.n) ELSE NaN

\* Math.floor(a / b) and Math.ceil(a / b) for integers a, b with b # 0
FloorDiv(a, b) == IF b > 0 THEN a \div b ELSE (0 - a) \div (0 - b)
CeilDiv(a, b) == 0 - FloorDiv(0 - a, b)

(***************************************************************************)
(* Strings that the code splits.  TLC strings are atomic, so split('.')    *)
(* and the "attr:path, attr:path" syntax are tabulated for the strings     *)
(* that occur in the modelled documents.                                   *)
(***************************************************************************)
\* path.split('.')
SplitPath(s) ==
  CASE s = "profile.role" -> <<"profile", "role">>
    [] s = "page.results" -> <<"page", "results">>
    [] OTHER -> <<s>>

\* bindings.split(',') then binding.split(':').map(trim): <<attr, path>> pairs
SplitBindings(s) ==
  CASE s = "title:name" -> << <<"title", "name">> >>
    [] s = "data-id:id, data-row:$index" ->
         << <<"data-id", "id">>, <<"data-row", "$index">> >>
    [] s = "data-id:id, data-row:$index__paged" ->
         << <<"data-id", "id">>, <<"data-row", "$index__paged">> >>
    [] OTHER -> << <<s, s>> >>

\* Ramda's R.path(keys, obj)
RECURSIVE RPath(_, _)
RPath(keys, obj) ==
  IF keys = <<>> THEN obj
  ELSE IF ~isDefAndNotNull(obj) THEN Undefined
  ELSE IF obj.t = "object" /\ Head(keys) \in DOMAIN obj.o
       THEN RPath(Tail(keys), obj.o[Head(keys)])
  ELSE Undefined

\* Ramda's R.has(key, obj): an own property
RHas(key, obj) == obj.t = "object" /\ key \in DOMAIN obj.o

(***************************************************************************)
(* The DOM: an element is a record; kids are its child elements in         *)
(* document order, content is the fragment of a <template>.                *)
(***************************************************************************)
El(tag, attrs, text, kids) ==
  [tag |-> tag, attrs |-> attrs, text |-> text, display |-> "",
   kids |-> kids, content |-> <<>>]

Template(id, content) ==
  [tag |-> "TEMPLATE", attrs |-> [id |-> id], text |-> "", display |-> "",
   kids |-> <<>>, content |-> content]

NoAttrs == [a \in {} |-> ""]

hasAttribute(el, a) == a \in DOMAIN el.attrs

setAttribute(el, a, v) ==
  [el EXCEPT !.attrs = [k \in (DOMAIN el.attrs) \cup {a} |->
                          IF k = a THEN v ELSE el.attrs[k]]]

removeAttribute(el, a) ==
  [el EXCEPT !.attrs = [k \in (DOMAIN el.attrs) \ {a} |-> el.attrs[k]]]

\* the text added after the text the element holds already
appendTextContent(el, s) == [el EXCEPT !.text = el.text \o s]

\* el.textContent = s: the children are replaced by one text node
setTextContent(el, s) == [el EXCEPT !.text = s, !.kids = <<>>]

RECURSIVE Flatten(_)
Flatten(seqs) == IF seqs = <<>> THEN <<>> ELSE Head(seqs) \o Flatten(Tail(seqs))

\* the elements of a forest in document order (pre-order)
RECURSIVE Descendants(_)
Descendants(forest) ==
  Flatten([i \in 1..Len(forest) |-> <<forest[i]>> \o Descendants(forest[i].kids)])

(***************************************************************************)
(* DataBinder: src/src/ui/data-binder.js                                   *)
(***************************************************************************)
\* DEFAULT_FORMATTERS.json on the scalar values the documents format
FormatJson(v) ==
  CASE v.t = "undefined" -> Undefined
    [] v.t = "string" -> JStr("\"" \o v.s \o "\"")
    [] v.t \in {"array", "object", "promise"} -> JStr("{...}")
    [] OTHER -> JStr(ToJSString(v))

\* this.#formatters: the formatter names that are defined
FormatterNames == {"json"}

\* #getValue(obj, path, index), with this.#offset as offset
getValue(offset, obj, path, index) ==
  IF path = "$index" THEN JNum(offset + index)
  ELSE IF path = "$index1" THEN JNum(offset + index + 1)
  ELSE RPath(SplitPath(path), obj)

\* no element counts as lying inside a consumer
neverInside(inConsumer, el) == FALSE

\* el.closest('[data-bind-template]'): el or an ancestor of it is a consumer
closestTemplate(inConsumer, el) ==
  inConsumer \/ hasAttribute(el, "data-bind-template")

\* only undefined and null fail the condition
failsWhenNullish(value) == ~isDefAndNotNull(value)

\* if (!value) of the show-if pass
failsShowIf(value) == ~Truthy(value)

\* the inner forEach of the data-bind-attr pass: one setAttribute per binding
\* whose value is neither undefined nor null
RECURSIVE applyAttrBindings(_, _, _, _, _)
applyAttrBindings(el, bindings, offset, data, index) ==
  IF bindings = <<>> THEN el
  ELSE LET value == getValue(offset, data, Head(bindings)[2], index)
           el1 == IF isDefAndNotNull(value)
                  THEN setAttribute(el, Head(bindings)[1], ToJSString(value))
                  ELSE el
       IN applyAttrBindings(el1, Tail(bindings), offset, data, index)

\* querySelectorAll('[data-bind-attr]').forEach(...) over a forest; inConsumer
\* says el.closest('[data-bind-template]') matches above the forest
RECURSIVE renderAttrBindings(_, _, _, _, _, _)
renderAttrBindings(forest, inConsumer, offset, data, index, removeAttributes) ==
  [i \in 1..Len(forest) |->
     LET el == forest[i]
         skip == closestTemplate(inConsumer, el)
         el1 == IF hasAttribute(el, "data-bind-attr") /\ ~skip
                THEN LET bound == applyAttrBindings(el,
                                    SplitBindings(el.attrs["data-bind-attr"]),
                                    offset, data, index)
                     IN IF removeAttributes
                        THEN removeAttribute(bound, "data-bind-attr")
                        ELSE bound
                ELSE el
     IN [el1 EXCEPT !.kids = renderAttrBindings(el1.kids,
                      inConsumer \/ hasAttribute(el1, "data-bind-template"),
                      offset, data, index, removeAttributes)]]

\* querySelectorAll('[data-bind]').forEach(...): el.textContent = value ?? ''
RECURSIVE renderContentBindings(_, _, _, _, _, _)
renderContentBindings(forest, inConsumer, offset, data, index, removeAttributes) ==
  [i \in 1..Len(forest) |->
     LET el == forest[i]
         skip == closestTemplate(inConsumer, el)
         el1 ==
           IF hasAttribute(el, "data-bind") /\ ~skip
           THEN LET raw == getValue(offset, data, el.attrs["data-bind"], index)
                    value == IF /\ hasAttribute(el, "data-bind-format")
                                /\ el.attrs["data-bind-format"] \in FormatterNames
                             THEN FormatJson(raw)
                             ELSE raw
                    bound == setTextContent(el,
                               IF isDefAndNotNull(value) THEN ToJSString(value) ELSE "")
                IN IF removeAttributes
                   THEN removeAttribute(removeAttribute(bound, "data-bind"),
                                        "data-bind-format")
                   ELSE bound
           ELSE el
     IN [el1 EXCEPT !.kids = renderContentBindings(el1.kids,
                      inConsumer \/ hasAttribute(el1, "data-bind-template"),
                      offset, data, index, removeAttributes)]]

\* querySelectorAll('[data-bind-show-if]').forEach(...).  A removed element
\* leaves the forest.  connected is el.isConnected: false inside a clone, so
\* there the attribute stays on the elements that survive.
RECURSIVE renderShowIf(_, _, _, _, _, _, _, _)
renderShowIf(forest, inConsumer, offset, data, index, removeOnCondition, removeAttributes, connected) ==
  Flatten([i \in 1..Len(forest) |->
     LET el == forest[i]
         skip == closestTemplate(inConsumer, el)
         active == hasAttribute(el, "data-bind-show-if") /\ ~skip
         value == getValue(offset, data, el.attrs["data-bind-show-if"], index)
         removed == active /\ failsShowIf(value) /\ removeOnCondition
         el1 == IF ~active THEN el
                ELSE IF failsShowIf(value) THEN [el EXCEPT !.display = "none"]
                ELSE IF ~removeOnCondition THEN [el EXCEPT !.display = ""]
                ELSE el
         stillConnected == connected /\ ~removed
         el2 == IF active /\ removeAttributes /\ stillConnected
                THEN removeAttribute(el1, "data-bind-show-if")
                ELSE el1
     IN IF removed THEN <<>>
        ELSE << [el2 EXCEPT !.kids = renderShowIf(el2.kids,
                   inConsumer \/ hasAttribute(el2, "data-bind-template"),
                   offset, data, index, removeOnCondition, removeAttributes,
                   connected)] >>])

\* querySelectorAll('[data-bind-hide-if]').forEach(...)
RECURSIVE renderHideIf(_, _, _, _, _, _, _, _)
renderHideIf(forest, inConsumer, offset, data, index, removeOnCondition, removeAttributes, connected) ==
  Flatten([i \in 1..Len(forest) |->
     LET el == forest[i]
         skip == closestTemplate(inConsumer, el)
         active == hasAttribute(el, "data-bind-hide-if") /\ ~skip
         value == getValue(offset, data, el.attrs["data-bind-hide-if"], index)
         removed == active /\ Truthy(value) /\ removeOnCondition
         el1 == IF ~active THEN el
                ELSE IF Truthy(value) THEN [el EXCEPT !.display = "none"]
                ELSE IF ~removeOnCondition THEN [el EXCEPT !.display = ""]
                ELSE el
         stillConnected == connected /\ ~removed
         el2 == IF active /\ removeAttributes /\ stillConnected
                THEN removeAttribute(el1, "data-bind-hide-if")
                ELSE el1
     IN IF removed THEN <<>>
        ELSE << [el2 EXCEPT !.kids = renderHideIf(el2.kids,
                   inConsumer \/ hasAttribute(el2, "data-bind-template"),
                   offset, data, index, removeOnCondition, removeAttributes,
                   connected)] >>])

\* #renderSimpleBindings(element, data, index, options) on the descendants of
\* element (a forest): the four passes in the order of the code
renderSimpleBindings(forest, inConsumer, offset, data, index, removeOnCondition, removeAttributes, connected) ==
  LET p1 == renderAttrBindings(forest, inConsumer, offset, data, index,
                               removeAttributes)
      p2 == renderContentBindings(p1, inConsumer, offset, data, index,
                                  removeAttributes)
      p3 == renderShowIf(p2, inConsumer, offset, data, index,
                         removeOnCondition, removeAttributes, connected)
  IN renderHideIf(p3, inConsumer, offset, data, index,
                  removeOnCondition, removeAttributes, connected)

\* #renderTemplateItem(template, item, index): clone the content, bind it with
\* removeOnCondition and removeAttributes; the clone is a detached fragment
renderTemplateItem(template, offset, item, index) ==
  renderSimpleBindings(template.content, FALSE, offset, item, index,
                       TRUE, TRUE, FALSE)

\* the element at a path of child positions below a forest
RECURSIVE NodeAt(_, _)
NodeAt(forest, path) ==
  IF Len(path) = 1 THEN forest[path[1]]
  ELSE NodeAt(forest[path[1]].kids, Tail(path))

\* the forest with the element at path replaced
RECURSIVE ReplaceAt(_, _, _)
ReplaceAt(forest, path, el) ==
  IF Len(path) = 1 THEN [forest EXCEPT ![path[1]] = el]
  ELSE [forest EXCEPT ![path[1]] =
          [@ EXCEPT !.kids = ReplaceAt(@, Tail(path), el)]]

\* querySelectorAll('[attr]') below a forest: the paths of the matching
\* elements in document order
RECURSIVE PathsWith(_, _, _)
PathsWith(forest, attr, prefix) ==
  Flatten([i \in 1..Len(forest) |->
     (IF hasAttribute(forest[i], attr) THEN << prefix \o <<i>> >> ELSE <<>>)
     \o PathsWith(forest[i].kids, attr, prefix \o <<i>>)])

IsPrefix(p, q) == Len(p) <= Len(q) /\ SubSeq(q, 1, Len(p)) = p

\* no element: what getElementById and querySelector return as null
NoElement == [tag |-> "#null"]

\* the first element of a forest, in document order, whose id is id
RECURSIVE FirstWithId(_, _)
FirstWithId(forest, id) ==
  IF forest = <<>> THEN NoElement
  ELSE IF hasAttribute(Head(forest), "id") /\ Head(forest).attrs["id"] = id
  THEN Head(forest)
  ELSE LET below == FirstWithId(Head(forest).kids, id)
       IN IF below # NoElement THEN below ELSE FirstWithId(Tail(forest), id)

\* the clones appended to what the consumer holds already
appendWithoutClearing(consumer, clones) ==
  [consumer EXCEPT !.kids = consumer.kids \o Flatten(clones)]

\* consumer.innerHTML = '' and then one appendChild per clone
appendClones(consumer, clones) ==
  [consumer EXCEPT !.text = "", !.kids = Flatten(clones)]

\* a consumer that fails a check is emptied all the same
emptySkippedConsumer(consumer) == [consumer EXCEPT !.text = "", !.kids = <<>>]

\* the return of consumers.forEach's callback after a failed check: nothing
\* has been done to the consumer
skipConsumer(consumer) == consumer

\* the body of consumers.forEach in #renderTemplateConsumers for the consumers
\* at paths, in order; detached holds the consumers already re-rendered, whose
\* former descendants are no longer in the document
RECURSIVE renderConsumers(_, _, _, _, _, _)
renderConsumers(root, outside, paths, detached, offset, data) ==
  IF paths = <<>> THEN root
  ELSE
    LET p == Head(paths)
        consumer == NodeAt(root.kids, p)
        templateId == consumer.attrs["data-bind-template"]
        template == FirstWithId(<<root>> \o outside, templateId)
        dataSlice == IF /\ hasAttribute(consumer, "data-path")
                        /\ consumer.attrs["data-path"] # ""
                     THEN RPath(SplitPath(consumer.attrs["data-path"]), data)
                     ELSE data
        clones == [k \in 1..Len(dataSlice.a) |->
                     renderTemplateItem(template, offset, dataSlice.a[k], k - 1)]
        rendered == appendClones(consumer, clones)
    IN IF \E q \in detached : IsPrefix(q, p) /\ q # p
       THEN renderConsumers(root, outside, Tail(paths), detached, offset, data)
       ELSE IF \/ templateId = ""
               \/ template = NoElement \/ template.tag # "TEMPLATE"
               \/ dataSlice.t # "array"
       THEN renderConsumers(
              [root EXCEPT !.kids = ReplaceAt(root.kids, p, skipConsumer(consumer))],
              outside, Tail(paths), detached, offset, data)
       ELSE renderConsumers(
              [root EXCEPT !.kids = ReplaceAt(root.kids, p, rendered)],
              outside, Tail(paths), detached \cup {p}, offset, data)

\* #renderTemplateConsumers(): every [data-bind-template] element below the root
renderTemplateConsumers(root, outside, offset, data) ==
  renderConsumers(root, outside,
                  PathsWith(root.kids, "data-bind-template", <<>>),
                  {}, offset, data)

\* the root after the first step of render(): the root-level simple bindings
renderRootBindings(root, offset, data) ==
  [root EXCEPT !.kids =
     renderSimpleBindings(root.kids, hasAttribute(root, "data-bind-template"),
                          offset, data, 0, FALSE, FALSE, TRUE)]

\* render(): nothing when this.#data is falsy, else the simple bindings of the
\* root and then the template consumers
render(root, outside, offset, data) ==
  IF ~Truthy(data) THEN root
  ELSE renderTemplateConsumers(renderRootBindings(root, offset, data),
                               outside, offset, data)

\* isDRFPaginated = R.both(R.has('count'), R.has('results'))
isDRFPaginated(json) == RHas("count", json) /\ RHas("results", json)

(***************************************************************************)
(* Binder: src/src/ui/binder.js.  The url of a Binder is modelled by its    *)
(* search parameters, a function from keys to strings.                     *)
(***************************************************************************)
\* parseInt(this.#url.searchParams.get(key) || '0', 10)
Binder_intParam(searchParams, key) ==
  IF key \in DOMAIN searchParams /\ searchParams[key] # ""
  THEN parseInt(searchParams[key])
  ELSE parseInt("0")

\* get limit()
Binder_limit(searchParams) == Binder_intParam(searchParams, "limit")

\* an offset of 0 whatever the url says
Binder_noOffset(searchParams) == parseInt("0")

\* get offset()
Binder_offset(searchParams) == Binder_intParam(searchParams, "offset")

\* get isPaginated()
Binder_isPaginated(json) == RHas("count", json) /\ RHas("results", json)

\* #setUrlParams(params): a null, undefined or empty value (string or array)
\* deletes the key, an array is joined with commas, any other value is set as
\* a string
Binder_setUrlParams(searchParams, params) ==
  LET deleted == {k \in DOMAIN params :
                    \/ ~isDefAndNotNull(params[k]) \/ params[k] = JStr("")
                    \/ (params[k].t = "array" /\ Len(params[k].a) < 1)}
      set == (DOMAIN params) \ deleted
  IN [k \in ((DOMAIN searchParams) \ deleted) \cup set |->
        IF k \in set THEN ToJSString(params[k]) ELSE searchParams[k]]

\* #getValue(obj, pathString, index): the specialVars table, else the path
Binder_getValue(searchParams, obj, pathString, index) ==
  CASE pathString = "$index" -> JNum(index)
    [] pathString = "$index__paged" ->
         JSAdd(Binder_offset(searchParams), JNum(index))
    [] pathString = "$index1" -> JNum(index + 1)
    [] pathString = "$index1__paged" ->
         JSAdd(JSAdd(Binder_offset(searchParams), JNum(index)), JNum(1))
    [] OTHER -> RPath(SplitPath(pathString), obj)

\* the names of Binder's DEFAULT_FORMATTERS
Binder_FormatterNames == {"json", "date"}

\* DEFAULT_FORMATTERS[name](value): json as in DataBinder; date gives '' for
\* a falsy value and for one that is no date, else the formatted time
Binder_format(name, value) ==
  IF name = "json" THEN FormatJson(value)
  ELSE IF ~Truthy(value) \/ value.t \notin {"string", "number"} THEN JStr("")
  ELSE JStr("DD MMM YY HH:mm:ss")

RECURSIVE Binder_applyAttrBindings(_, _, _, _, _)
Binder_applyAttrBindings(el, bindings, searchParams, data, index) ==
  IF bindings = <<>> THEN el
  ELSE LET value == Binder_getValue(searchParams, data, Head(bindings)[2], index)
           el1 == IF isDefAndNotNull(value)
                  THEN setAttribute(el, Head(bindings)[1], ToJSString(value))
                  ELSE el
       IN Binder_applyAttrBindings(el1, Tail(bindings), searchParams, data, index)

\* querySelectorAll('[zoo-bind-attr]').forEach(...)
RECURSIVE Binder_renderAttrBindings(_, _, _, _, _, _)
Binder_renderAttrBindings(forest, inConsumer, searchParams, data, index, removeAttributes) ==
  [i \in 1..Len(forest) |->
     LET el == forest[i]
         skip == inConsumer \/ hasAttribute(el, "zoo-template")
         el1 == IF hasAttribute(el, "zoo-bind-attr") /\ ~skip
                THEN LET bound == Binder_applyAttrBindings(el,
                                    SplitBindings(el.attrs["zoo-bind-attr"]),
                                    searchParams, data, index)
                     IN IF removeAttributes
                        THEN removeAttribute(bound, "zoo-bind-attr")
                        ELSE bound
                ELSE el
     IN [el1 EXCEPT !.kids = Binder_renderAttrBindings(el1.kids,
                      inConsumer \/ hasAttribute(el1, "zoo-template"),
                      searchParams, data, index, removeAttributes)]]

\* querySelectorAll('[zoo-bind]').forEach(...)
RECURSIVE Binder_renderContentBindings(_, _, _, _, _, _)
Binder_renderContentBindings(forest, inConsumer, searchParams, data, index, removeAttributes) ==
  [i \in 1..Len(forest) |->
     LET el == forest[i]
         skip == inConsumer \/ hasAttribute(el, "zoo-template")
         el1 ==
           IF hasAttribute(el, "zoo-bind") /\ ~skip
           THEN LET raw == Binder_getValue(searchParams, data,
                                           el.attrs["zoo-bind"], index)
                    value == IF /\ hasAttribute(el, "zoo-bind-format")
                                /\ el.attrs["zoo-bind-format"] \in Binder_FormatterNames
                             THEN Binder_format(el.attrs["zoo-bind-format"], raw)
                             ELSE raw
                    bound == setTextContent(el,
                               IF isDefAndNotNull(value) THEN ToJSString(value) ELSE "")
                IN IF removeAttributes
                   THEN removeAttribute(removeAttribute(bound, "zoo-bind"),
                                        "zoo-bind-format")
                   ELSE bound
           ELSE el
     IN [el1 EXCEPT !.kids = Binder_renderContentBindings(el1.kids,
                      inConsumer \/ hasAttribute(el1, "zoo-template"),
                      searchParams, data, index, removeAttributes)]]

\* #renderSimpleBindings(element, data, index, options): the two passes
Binder_renderSimpleBindings(forest, inConsumer, searchParams, data, index, removeAttributes) ==
  Binder_renderContentBindings(
    Binder_renderAttrBindings(forest, inConsumer, searchParams, data, index,
                              removeAttributes),
    inConsumer, searchParams, data, index, removeAttributes)

\* #renderTemplateItem(template, item, index)
Binder_renderTemplateItem(template, searchParams, item, index) ==
  Binder_renderSimpleBindings(template.content, FALSE, searchParams, item,
                              index, TRUE)

\* the body of consumers.forEach in #renderTemplateConsumers; the template is
\* looked up below the root element
RECURSIVE Binder_renderConsumers(_, _, _, _, _)
Binder_renderConsumers(rootEl, paths, detached, searchParams, data) ==
  IF paths = <<>> THEN rootEl
  ELSE
    LET p == Head(paths)
        consumer == NodeAt(rootEl.kids, p)
        templateId == consumer.attrs["zoo-template"]
        template == FirstWithId(rootEl.kids, templateId)
        dataSlice == IF /\ hasAttribute(consumer, "zoo-template-bind")
                        /\ consumer.attrs["zoo-template-bind"] # ""
                     THEN RPath(SplitPath(consumer.attrs["zoo-template-bind"]), data)
                     ELSE data
        clones == [k \in 1..Len(dataSlice.a) |->
                     Binder_renderTemplateItem(template, searchParams,
                                               dataSlice.a[k], k - 1)]
        rendered == [consumer EXCEPT !.text = "", !.kids = Flatten(clones)]
    IN IF \E q \in detached : IsPrefix(q, p) /\ q # p
       THEN Binder_renderConsumers(rootEl, Tail(paths), detached, searchParams, data)
       ELSE IF \/ templateId = ""
               \/ template = NoElement \/ template.tag # "TEMPLATE"
               \/ ~Truthy(dataSlice)
               \/ dataSlice.t # "array"
       THEN Binder_renderConsumers(
              [rootEl EXCEPT !.kids = ReplaceAt(rootEl.kids, p, skipConsumer(consumer))],
              Tail(paths), detached, searchParams, data)
       ELSE Binder_renderConsumers(
              [rootEl EXCEPT !.kids = ReplaceAt(rootEl.kids, p, rendered)],
              Tail(paths), detached \cup {p}, searchParams, data)

\* #renderTemplateConsumers()
Binder_renderTemplateConsumers(rootEl, searchParams, data) ==
  Binder_renderConsumers(rootEl, PathsWith(rootEl.kids, "zoo-template", <<>>),
                         {}, searchParams, data)

\* the root element after the first step of render()
Binder_renderRootBindings(rootEl, searchParams, data) ==
  [rootEl EXCEPT !.kids =
     Binder_renderSimpleBindings(rootEl.kids, hasAttribute(rootEl, "zoo-template"),
                                 searchParams, data, 0, FALSE)]

\* render(): nothing when this.#data is null or undefined
Binder_render(rootEl, searchParams, data) ==
  IF ~isDefAndNotNull(data) THEN rootEl
  ELSE Binder_renderTemplateConsumers(
         Binder_renderRootBindings(rootEl, searchParams, data),
         searchParams, data)

(***************************************************************************)
(* The documents and the payloads the model runs on.                       *)
(***************************************************************************)
\* <template id="row-tpl">: one row per item, as in the examples of
\* data-binder.js (USE CASE 2), with every kind of binding in it
RowTemplate ==
  Template("row-tpl", <<
    El("li", [x \in {"data-bind-attr"} |-> "data-id:id, data-row:$index"], "", <<
      El("span", [x \in {"data-bind"} |-> "$index1"], "", <<>>),
      El("strong", [x \in {"data-bind"} |-> "name"], "", <<>>),
      El("code", [x \in {"data-bind", "data-bind-format"} |->
                    IF x = "data-bind" THEN "id" ELSE "json"], "", <<>>),
      El("em", [x \in {"data-bind-show-if"} |-> "active"], "on", <<>>),
      El("i", [x \in {"data-bind-hide-if"} |-> "active"], "off", <<>>) >>) >>)

\* the static row a consumer holds before its first render
Placeholder ==
  El("li", [x \in {"data-bind", "data-bind-show-if", "data-bind-attr"} |->
              CASE x = "data-bind" -> "name"
                [] x = "data-bind-show-if" -> "isActive"
                [] OTHER -> "title:name"], "loading", <<>>)

\* USE CASE 4 of data-binder.js: simple bindings and one consumer
RootA ==
  El("div", [id |-> "app"], "", <<
    El("h1", [x \in {"data-bind", "data-bind-attr"} |->
                IF x = "data-bind" THEN "name" ELSE "title:name"], "", <<
      El("small", NoAttrs, "untitled", <<>>) >>),
    El("span", [x \in {"data-bind"} |-> "profile.role"], "", <<>>),
    El("b", [x \in {"data-bind"} |-> "$index1"], "", <<>>),
    El("div", [x \in {"data-bind-show-if"} |-> "isActive"], "Active", <<>>),
    El("div", [x \in {"data-bind-hide-if"} |-> "isActive"], "Inactive", <<>>),
    El("ul", [x \in {"data-bind-template", "data-path"} |->
                IF x = "data-path" THEN "results" ELSE "row-tpl"], "",
       <<Placeholder>>) >>)

\* a document with the unusual cases: a custom pagination event name, an
\* element with both conditions, a consumer of the whole payload, consumers
\* without a usable template, a consumer nested in a consumer
RootB ==
  El("div", [x \in {"id", "data-pagination-event"} |->
               IF x = "id" THEN "app" ELSE "items-page"], "", <<
    El("p", [x \in {"data-bind-show-if", "data-bind-hide-if"} |->
               IF x = "data-bind-show-if" THEN "isActive" ELSE "name"],
       "both", <<>>),
    El("ul", [x \in {"data-bind-template"} |-> "row-tpl"], "", <<Placeholder>>),
    El("ul", [x \in {"data-bind-template", "data-path"} |->
                IF x = "data-path" THEN "results" ELSE ""], "", <<Placeholder>>),
    El("ul", [x \in {"data-bind-template", "data-path"} |->
                IF x = "data-path" THEN "results" ELSE "app"], "", <<Placeholder>>),
    El("ol", [x \in {"data-bind-template", "data-path"} |->
                IF x = "data-path" THEN "page.results" ELSE "row-tpl"], "", <<
      El("ul", [x \in {"data-bind-template", "data-path"} |->
                  IF x = "data-path" THEN "results" ELSE "row-tpl"], "",
         <<Placeholder>>) >>) >>)

\* the elements of the document that are not below the root
Outside == <<RowTemplate>>

Item(id, name, active) ==
  JObj([id |-> JNum(id), name |-> JStr(name), active |-> JBool(active)])

\* a DRF page: {count, next, previous, results} and more
PageOne ==
  JObj([count |-> JNum(5), next |-> JStr("/api/items/?offset=2"),
        previous |-> JNull,
        results |-> JArr(<<Item(1, "ann", TRUE), Item(2, "bob", FALSE)>>),
        name |-> JStr("first"), isActive |-> JBool(TRUE),
        profile |-> JObj([role |-> JStr("admin")])])

\* a later DRF page, with no name and no profile
PageTwo ==
  JObj([count |-> JNum(5), next |-> JNull,
        previous |-> JStr("/api/items/?offset=0"),
        results |-> JArr(<<Item(3, "cy", TRUE)>>),
        isActive |-> JBool(FALSE),
        page |-> JObj([results |-> JArr(<<>>)])])

\* an object that is not paginated and whose results are not an array
Plain ==
  JObj([name |-> JStr("solo"), results |-> JStr("none"),
        isActive |-> JBool(FALSE)])

\* a top-level array
ListOnly == JArr(<<Item(7, "zed", TRUE)>>)

\* a Response body that is not JSON: result.json() rejects
NotJson == [t |-> "not-json"]

\* what fetchFn resolves with when it returns the data itself; JNull is a
\* falsy payload
FetchedData == {PageOne, PageTwo, JNull}

\* the bodies of the ok Responses fetchFn resolves with
Bodies == {Plain, NotJson}

\* what setData is given from outside
PushedData == {ListOnly, PageTwo}

\* the params objects getData is called with: none, a page, and a limit of 0
\* with an offset that is not a number
ParamChoices ==
  { [k \in {} |-> Undefined],
    [limit |-> JNum(2), offset |-> JNum(2)],
    [limit |-> JNum(0), offset |-> JStr("last")] }

\* the row template of a table
TableRowTemplate ==
  Template("user-row", <<
    El("cds-table-row", [x \in {"zoo-bind-attr"} |->
                           "data-id:id, data-row:$index__paged"], "", <<
      El("cds-table-cell", [x \in {"zoo-bind"} |-> "$index"], "", <<>>),
      El("cds-table-cell", [x \in {"zoo-bind"} |-> "$index1"], "", <<>>),
      El("cds-table-cell", [x \in {"zoo-bind"} |-> "$index__paged"], "", <<>>),
      El("cds-table-cell", [x \in {"zoo-bind"} |-> "$index1__paged"], "", <<>>),
      El("cds-table-cell", [x \in {"zoo-bind"} |-> "name"], "", <<>>) >>) >>)

TablePlaceholder ==
  El("cds-table-row", [x \in {"zoo-bind", "zoo-bind-attr"} |->
                         IF x = "zoo-bind" THEN "name" ELSE "title:name"],
     "loading", <<>>)

\* a cds-table with zoo-url-api, laid out as in the example of part_001: an
\* outer cds-table-body holds the template and the consumers
RootTable ==
  El("cds-table", [x \in {"zoo-url-api", "data-page-size"} |->
                     IF x = "zoo-url-api" THEN "/api/users/" ELSE "2"], "", <<
    El("cds-table-header-title", [x \in {"zoo-bind", "zoo-bind-attr"} |->
                         IF x = "zoo-bind" THEN "name" ELSE "title:name"], "", <<>>),
    El("cds-table-body", NoAttrs, "", <<
      TableRowTemplate,
      El("cds-table-body", [x \in {"zoo-template", "zoo-template-bind"} |->
                              IF x = "zoo-template" THEN "user-row" ELSE "results"],
         "", << TablePlaceholder >>),
      El("cds-table-body", [x \in {"zoo-template", "zoo-template-bind"} |->
                              IF x = "zoo-template" THEN "user-row" ELSE "page.results"],
         "", << TablePlaceholder >>),
      El("cds-table-body", [x \in {"zoo-template"} |-> "no-such-row"],
         "", << TablePlaceholder >>) >>) >>)

\* the page sizes the paginator offers and the search texts typed
PageSizes == {2, 4}

SearchValues == {"", "ann"}

\* the orderings a sortable header asks for, and the checked filter values
Orderings == {"-name"}
FilterValues == { << JStr("active"), JStr("new") >> }

\* import functions of the component configurations
ImportFns == {"modalImport", "paginationImport"}

(***************************************************************************)
(* The state.                                                              *)
(***************************************************************************)
VARIABLES
  binder,   \* which class is under test: "DataBinder" or "Binder"
  root,     \* this.#root / this.#rootEl: the root element and all below it
  data,     \* this.#data
  offset,   \* DataBinder's this.#offset
  calls,    \* the getData / fetchData calls so far, each with its position
  log,      \* what the binder has done, in order: the events it dispatched
            \* on the root and its calls of setData
  ops,      \* how many operations the environment has started
  url,      \* Binder's this.#url: its search parameters
  table,    \* the Carbon table around a Binder: the paginator's page and
            \* pageSize, the handlers' lastFetchedOffset, the skeleton
  pagination, \* a standalone cds-pagination wrapped by cdsPaginationWrap: its
            \* page and pageSize and the wrapper's lastNavigationOffset
  importCache, \* the cache handed to loadComponentImports, the import promises
            \* in it, and the loadComponentImports calls made so far
  modal,    \* a cds-modal initialised by the modal component: its attributes
            \* and whether it is open
  zooTimestamp, \* a zoo-timestamp element: kind, _isListening, connection and
            \* the pending Lit update
  conductor \* a Conductor: #activeView and the views it has been given

\* the state of the binders and of the table around a Binder
binderVars == <<binder, root, data, offset, calls, url, table>>

\* the state of the other components
componentVars == <<pagination, importCache, modal, zooTimestamp, conductor>>

\* the components other than the one a step is about
othersThanPagination == <<binderVars, importCache, modal, zooTimestamp, conductor>>
othersThanImportCache == <<binderVars, pagination, modal, zooTimestamp, conductor>>
othersThanModal == <<binderVars, pagination, importCache, zooTimestamp, conductor>>
othersThanTimestamp == <<binderVars, pagination, importCache, modal, conductor>>
othersThanConductor == <<binderVars, pagination, importCache, modal, zooTimestamp>>

vars == <<binder, root, data, offset, calls, log, ops, url, table, componentVars>>

\* url.searchParams after Object.entries(params).forEach(...): the keys whose
\* value is neither undefined nor null, each set to String(value)
searchParamsOf(params) ==
  [k \in {key \in DOMAIN params : isDefAndNotNull(params[key])} |->
     ToJSString(params[k])]

\* parseInt(url.searchParams.get(key)) || fallback; get gives null for a
\* missing key and parseInt(null) is NaN
parseIntOr(searchParams, key, fallback) ==
  LET parsed == IF key \in DOMAIN searchParams
                THEN parseInt(searchParams[key]) ELSE NaN
  IN IF Truthy(parsed) THEN parsed.n ELSE fallback

\* this.#dispatch(eventName, detail) of call c
Event(name, c, detail) == [ev |-> name, call |-> c, detail |-> detail]

NoDetail == [k \in {} |-> Undefined]

\* the detail of the pagination event of getData for json, the call's url
\* and the current this.#offset
paginationDetail(json, searchParams, currentOffset) ==
  LET paginationMeta == [k \in {"count", "next", "previous"} \cap DOMAIN json.o |->
                           json.o[k]]
      limit == parseIntOr(searchParams, "limit", 100)
      count == paginationMeta["count"].n
  IN [meta |-> paginationMeta,
      limit |-> limit,
      offset |-> currentOffset,
      page |-> FloorDiv(currentOffset, limit) + 1,
      totalPages |-> CeilDiv(count, limit),
      hasNext |-> RPath(<<"next">>, JObj(paginationMeta)) # JNull,
      hasPrevious |-> RPath(<<"previous">>, JObj(paginationMeta)) # JNull]

\* this.#root.getAttribute('data-pagination-event') || 'data-pagination'
paginationEventName(el) ==
  IF hasAttribute(el, "data-pagination-event") /\ el.attrs["data-pagination-event"] # ""
  THEN el.attrs["data-pagination-event"]
  ELSE "data-pagination"

\* the events getData dispatches before it calls setData(json)
paginationEvents(c, json, searchParams, currentOffset) ==
  IF isDRFPaginated(json)
  THEN << Event(paginationEventName(root), c,
                paginationDetail(json, searchParams, currentOffset)) >>
  ELSE <<>>

\* 'data-loaded' dispatched before setData(json)
loadedBeforeSetData(c, json, searchParams, currentOffset) ==
  paginationEvents(c, json, searchParams, currentOffset)
    \o << Event("data-loaded", c, [data |-> json]),
          Event("setData", c, [data |-> json]) >>

\* what getData does with json after its awaits, in order: the pagination
\* event, setData(json), 'data-loaded'
afterAwait(c, json, searchParams, currentOffset) ==
  paginationEvents(c, json, searchParams, currentOffset)
    \o << Event("setData", c, [data |-> json]),
          Event("data-loaded", c, [data |-> json]) >>

(***************************************************************************)
(* DataBinder's operations.                                                *)
(***************************************************************************)
\* getData(params) up to its first await: 'data-loading', the url, this.#offset,
\* and the request is issued
GetData(params) ==
  /\ binder = "DataBinder"
  /\ ops < MaxOps
  /\ ops' = ops + 1
  /\ LET c == Len(calls) + 1
         searchParams == searchParamsOf(params)
     IN /\ log' = log \o << Event("data-loading", c, NoDetail),
                            Event("fetch", c, [searchParams |-> searchParams]) >>
        /\ offset' = parseIntOr(searchParams, "offset", 0)
        /\ calls' = Append(calls, [searchParams |-> searchParams,
                                   stage |-> "fetch", body |-> Undefined,
                                   failure |-> "none"])
  /\ UNCHANGED <<componentVars, binder, url, table, root, data>>

\* the rest of the try block of getData once json is known: the pagination
\* event, setData(json), 'data-loaded'.  A json that is a rejected promise
\* makes the promise getData returned reject.
Proceed(c, json) ==
  /\ log' = log \o afterAwait(c, json, calls[c].searchParams, offset)
  /\ data' = json
  /\ root' = render(root, Outside, offset, json)
  /\ calls' = [calls EXCEPT ![c].stage =
                  IF json = RejectedPromise THEN "rejected" ELSE "resolved",
                            ![c].failure =
                  IF json = RejectedPromise THEN "response-not-ok" ELSE "none"]
  /\ UNCHANGED <<componentVars, binder, url, table, offset, ops>>

\* the catch block of getData: 'data-error', and the error is thrown again
Catch(c, failure) ==
  /\ log' = Append(log, Event("data-error", c, [error |-> failure]))
  /\ calls' = [calls EXCEPT ![c].stage = "rejected", ![c].failure = failure]
  /\ UNCHANGED <<componentVars, binder, url, table, root, data, offset, ops>>

\* fetchFn resolves with the data itself (not a Response)
FetchReturnsData(c, json) ==
  /\ binder = "DataBinder"
  /\ c \in DOMAIN calls /\ calls[c].stage = "fetch"
  /\ Proceed(c, json)

\* fetchFn resolves with a Response that is ok: getData awaits result.json()
FetchReturnsOkResponse(c, body) ==
  /\ binder = "DataBinder"
  /\ c \in DOMAIN calls /\ calls[c].stage = "fetch"
  /\ calls' = [calls EXCEPT ![c].stage = "json", ![c].body = body]
  /\ UNCHANGED <<componentVars, binder, url, table, root, data, offset, log, ops>>

\* fetchFn resolves with a Response that is not ok: json is the promise that
\* Promise.reject(...) returns, which is not awaited
FetchReturnsNotOkResponse(c) ==
  /\ binder = "DataBinder"
  /\ c \in DOMAIN calls /\ calls[c].stage = "fetch"
  /\ Proceed(c, RejectedPromise)

\* result.json() resolves
JsonResolves(c) ==
  /\ binder = "DataBinder"
  /\ c \in DOMAIN calls /\ calls[c].stage = "json"
  /\ calls[c].body # NotJson
  /\ Proceed(c, calls[c].body)

\* result.json() rejects: the body is not JSON
JsonRejects(c) ==
  /\ binder = "DataBinder"
  /\ c \in DOMAIN calls /\ calls[c].stage = "json"
  /\ calls[c].body = NotJson
  /\ Catch(c, "json-rejected")

\* fetchFn rejects (or throws)
FetchRejects(c) ==
  /\ binder = "DataBinder"
  /\ c \in DOMAIN calls /\ calls[c].stage = "fetch"
  /\ Catch(c, "fetch-rejected")

\* setData(json) called from outside
SetData(json) ==
  /\ binder = "DataBinder"
  /\ ops < MaxOps
  /\ ops' = ops + 1
  /\ data' = json
  /\ root' = render(root, Outside, offset, json)
  /\ log' = Append(log, Event("setData", 0, [data |-> json]))
  /\ UNCHANGED <<componentVars, binder, url, table, offset, calls>>

\* dispose(): the data is dropped and every consumer is emptied
disposeConsumers(el, paths) ==
  LET Empty(forest, p) == ReplaceAt(forest, p,
                            [NodeAt(forest, p) EXCEPT !.text = "", !.kids = <<>>])
      RECURSIVE EmptyAll(_, _)
      EmptyAll(forest, ps) ==
        IF ps = <<>> THEN forest
        ELSE EmptyAll(IF \E q \in 1..Len(paths) :
                           /\ IsPrefix(paths[q], Head(ps)) /\ paths[q] # Head(ps)
                      THEN forest
                      ELSE Empty(forest, Head(ps)), Tail(ps))
  IN [el EXCEPT !.kids = EmptyAll(el.kids, paths)]

Dispose ==
  /\ binder = "DataBinder"
  /\ ops < MaxOps
  /\ ops' = ops + 1
  /\ data' = JNull
  /\ root' = disposeConsumers(root,
                PathsWith(root.kids, "data-bind-template", <<>>))
  /\ log' = Append(log, Event("dispose", 0, NoDetail))
  /\ UNCHANGED <<componentVars, binder, url, table, offset, calls>>

(***************************************************************************)
(* Binder's operations, and the Carbon table around it:                    *)
(* src/unnamed/part_001.                                                   *)
(***************************************************************************)
\* fetchData(urlParams) up to its await: the url takes the parameters and
\* the request of the call is issued; cause names the caller
StartFetch(t, urlParams, cause, dispatched) ==
  LET c == Len(calls) + 1
      searchParams == Binder_setUrlParams(url, urlParams)
  IN /\ url' = searchParams
     /\ calls' = Append(calls, [searchParams |-> searchParams, stage |-> "fetch",
                                body |-> Undefined, failure |-> "none",
                                cause |-> cause])
     /\ log' = log \o dispatched
                   \o << Event("fetch", c, [searchParams |-> searchParams]) >>
     /\ table' = t

\* pagination.setData(dataBinder)
paginationSetData(t, json) ==
  IF Binder_isPaginated(json)
  THEN [t EXCEPT !.totalItems = RPath(<<"count">>, json).n]
  ELSE t

\* the callbacks chained on fetchData(...) by its callers
thenOf(t, cause, json) ==
  CASE cause = "init" ->
         [paginationSetData(t, json) EXCEPT !.skeleton = "hidden", !.ready = TRUE]
    [] cause \in {"navigation", "search", "clear-search", "sort", "filter"} ->
         [paginationSetData(t, json) EXCEPT !.skeleton = "hidden"]
    [] cause = "page-size" -> paginationSetData(t, json)
    [] OTHER -> t

\* panel.user.fetchJson resolves: setData(json), then the caller's callbacks
FetchJsonResolves(c, json) ==
  /\ binder = "Binder"
  /\ c \in DOMAIN calls /\ calls[c].stage = "fetch"
  /\ data' = json
  /\ root' = Binder_render(root, url, json)
  /\ log' = Append(log, Event("setData", c, [data |-> json]))
  /\ calls' = [calls EXCEPT ![c].stage = "resolved"]
  /\ table' = thenOf(table, calls[c].cause, json)
  /\ UNCHANGED <<componentVars, binder, offset, ops, url>>

\* panel.user.fetchJson rejects: fetchData rejects, no callback runs
FetchJsonRejects(c) ==
  /\ binder = "Binder"
  /\ c \in DOMAIN calls /\ calls[c].stage = "fetch"
  /\ calls' = [calls EXCEPT ![c].stage = "rejected", ![c].failure = "fetch-rejected"]
  /\ UNCHANGED <<componentVars, binder, root, data, offset, log, ops, url, table>>

\* Binder.setData(data) called from outside
BinderSetData(json) ==
  /\ binder = "Binder"
  /\ ops < MaxOps
  /\ ops' = ops + 1
  /\ data' = json
  /\ root' = Binder_render(root, url, json)
  /\ log' = Append(log, Event("setData", 0, [data |-> json]))
  /\ UNCHANGED <<componentVars, binder, offset, calls, url, table>>

\* listeners attached when the table is wrapped
listeningFromTheStart(t) == TRUE

\* the listeners of initEventHandlers exist once the callback of the initial
\* fetchData() has run
listening(t) == t.ready

\* no comparison with the last offset
alwaysFetch(pageOffset, lastFetchedOffset) == TRUE

\* if (offset !== lastFetchedOffset)
offsetDiffers(pageOffset, lastFetchedOffset) == JNum(pageOffset) # lastFetchedOffset

\* the listener of cds-pagination-changed-current set up by
\* initPageNavFunctionality, run for an event of the paginator in state t
onChangeCurrent(t, page, origin) ==
  LET pageSize == t.pageSize
      pageOffset == (page - 1) * pageSize
      event == Event("cds-pagination-changed-current", 0,
                     [page |-> page, origin |-> origin])
  IN IF offsetDiffers(pageOffset, t.lastFetchedOffset)
     THEN StartFetch([t EXCEPT !.lastFetchedOffset = JNum(pageOffset)],
                     [limit |-> JNum(pageSize), offset |-> JNum(pageOffset)],
                     "navigation", <<event>>)
     ELSE /\ log' = Append(log, event)
          /\ table' = t
          /\ UNCHANGED <<url, calls>>

\* the user moves the paginator to another page: Carbon sets its page, which
\* schedules an update of the element, and dispatches the event at once
ClickPage(page) ==
  /\ binder = "Binder"
  /\ listening(table) /\ table.pending = <<>>
  /\ ops < MaxOps
  /\ page # table.page
  /\ ops' = ops + 1
  /\ onChangeCurrent([table EXCEPT !.page = page, !.pending = <<page>>],
                     page, "click")
  /\ UNCHANGED <<componentVars, binder, root, data, offset>>

\* the update Carbon scheduled runs: updated() sees that page changed and
\* dispatches the event again
LitUpdated ==
  /\ binder = "Binder"
  /\ listening(table) /\ table.pending # <<>>
  /\ onChangeCurrent([table EXCEPT !.pending = Tail(table.pending)],
                     Head(table.pending), "updated")
  /\ UNCHANGED <<componentVars, binder, root, data, offset, ops>>

\* the user picks another page size: Carbon takes the size and goes back to
\* page 1; the listener set up by initPageSizeChangeFunctionality fetches
ChangePageSize(size) ==
  /\ binder = "Binder"
  /\ listening(table) /\ table.pending = <<>>
  /\ ops < MaxOps
  /\ size # table.pageSize
  /\ ops' = ops + 1
  /\ StartFetch([table EXCEPT !.pageSize = size, !.page = 1,
                              !.pending = IF table.page # 1 THEN <<1>> ELSE <<>>],
                [limit |-> JNum(size), offset |-> JNum(0)], "page-size",
                << Event("cds-page-sizes-select-changed", 0, [pageSize |-> size]) >>)
  /\ UNCHANGED <<componentVars, binder, root, data, offset>>

RECURSIVE PathsOfTag(_, _, _)
PathsOfTag(forest, tag, prefix) ==
  Flatten([i \in 1..Len(forest) |->
     (IF forest[i].tag = tag THEN << prefix \o <<i>> >> ELSE <<>>)
     \o PathsOfTag(forest[i].kids, tag, prefix \o <<i>>)])

\* the table body left as it is
keepTableBody(el) == el

\* cdsTable.querySelector('cds-table-body').replaceChildren()
clearTableBody(el) ==
  LET found == PathsOfTag(el.kids, "cds-table-body", <<>>)
  IN IF found = <<>> THEN el
     ELSE [el EXCEPT !.kids = ReplaceAt(el.kids, found[1],
             [NodeAt(el.kids, found[1]) EXCEPT !.text = "", !.kids = <<>>])]

\* Enter in the search box: the listener set up by initSearchOnEnter
SearchOnEnter(value) ==
  /\ binder = "Binder"
  /\ listening(table) /\ table.pending = <<>>
  /\ ops < MaxOps
  /\ ops' = ops + 1
  /\ root' = clearTableBody(root)
  /\ StartFetch([table EXCEPT !.skeleton = "shown", !.totalItems = 0],
                [search |-> JStr(value), offset |-> JNum(0)], "search",
                << Event("keydown", 0, [key |-> "Enter", value |-> value]) >>)
  /\ UNCHANGED <<componentVars, binder, data, offset>>

\* the clear button of the search box: the listener set up by initClearSearch
\* sees the empty value
ClearSearch ==
  /\ binder = "Binder"
  /\ listening(table) /\ table.pending = <<>>
  /\ ops < MaxOps
  /\ ops' = ops + 1
  /\ StartFetch([table EXCEPT !.skeleton = "shown"],
                [search |-> JStr(""), offset |-> JNum(0)], "clear-search",
                << Event("cds-search-input", 0, [value |-> ""]) >>)
  /\ UNCHANGED <<componentVars, binder, root, data, offset>>

\* a click on a sortable header: the listener set up by initServerSideSorting
SortColumn(ordering) ==
  /\ binder = "Binder"
  /\ listening(table) /\ table.pending = <<>>
  /\ ops < MaxOps
  /\ ops' = ops + 1
  /\ root' = clearTableBody(root)
  /\ StartFetch([table EXCEPT !.skeleton = "shown"],
                [ordering |-> JStr(ordering)], "sort",
                << Event("cds-table-header-cell-sort", 0, [ordering |-> ordering]) >>)
  /\ UNCHANGED <<componentVars, binder, data, offset>>

\* the Apply button of a filter popover with the checked values of its field
ApplyFilter(values) ==
  /\ binder = "Binder"
  /\ listening(table) /\ table.pending = <<>>
  /\ ops < MaxOps
  /\ ops' = ops + 1
  /\ StartFetch([table EXCEPT !.skeleton = "shown"],
                [offset |-> JNum(0), status |-> JArr(values)], "filter",
                << Event("click", 0, [button |-> "apply-filter"]) >>)
  /\ UNCHANGED <<componentVars, binder, root, data, offset>>

\* the Reset button of a filter popover
ResetFilter ==
  /\ binder = "Binder"
  /\ listening(table) /\ table.pending = <<>>
  /\ ops < MaxOps
  /\ ops' = ops + 1
  /\ StartFetch([table EXCEPT !.skeleton = "shown"],
                [offset |-> JNum(0), status |-> JNull], "filter",
                << Event("click", 0, [button |-> "reset-filter"]) >>)
  /\ UNCHANGED <<componentVars, binder, root, data, offset>>

\* the Binder of setupDataBinderIntegration: new Binder(panel, apiUrl, el,
\* {urlParams: {limit: pageSize}})
tableUrl(el) ==
  Binder_setUrlParams([k \in {} |-> ""],
    [limit |-> IF hasAttribute(el, "data-page-size") /\ el.attrs["data-page-size"] # ""
               THEN parseInt(el.attrs["data-page-size"])
               ELSE parseInt("25")])

\* a DataBinder has no table around it
NoTable == [ready |-> FALSE, page |-> 1, pageSize |-> 0, pending |-> <<>>,
            lastFetchedOffset |-> JNull, skeleton |-> "none", totalItems |-> 0]

\* cdsTableWrap.init up to the end of its first turn: the Binder, the
\* skeleton, the paginator, and the initial fetchData() is in flight
InitTable ==
  /\ binder = "Binder"
  /\ root = RootTable
  /\ data = JNull
  /\ offset = 0
  /\ url = tableUrl(RootTable)
  /\ calls = << [searchParams |-> tableUrl(RootTable), stage |-> "fetch",
                 body |-> Undefined, failure |-> "none", cause |-> "init"] >>
  /\ log = << Event("fetch", 1, [searchParams |-> tableUrl(RootTable)]) >>
  /\ ops = 0
  /\ table = [ready |-> FALSE, page |-> 1,
              pageSize |-> Binder_limit(tableUrl(RootTable)).n,
              pending |-> <<>>, lastFetchedOffset |-> JNull,
              skeleton |-> "shown", totalItems |-> 0]

\* a DataBinder on its root, nothing fetched yet
InitDataBinder ==
  /\ binder = "DataBinder"
  /\ root \in {RootA, RootB}
  /\ data = JNull
  /\ offset = 0
  /\ calls = <<>>
  /\ log = <<>>
  /\ ops = 0
  /\ url = [k \in {} |-> ""]
  /\ table = NoTable

\* no component other than the binder is on the page
NoPagination == [page |-> 1, pageSize |-> 0, pending |-> <<>>, lastNavigationOffset |-> JNull]

NoImportCache == [promises |-> [f \in {} |-> ""], invoked |-> [f \in ImportFns |-> 0], loads |-> <<>>]

NoModal == [attrs |-> NoAttrs, open |-> FALSE]

NoTimestamp == [kind |-> "both", isConnected |-> FALSE, updating |-> FALSE,
                isListening |-> FALSE, isUpdatePending |-> FALSE,
                changedProperties |-> {}]

\* #activeView = null
NoView == 0

NoConductor == [activeView |-> NoView, views |-> <<>>, viewConstructorMap |-> {}]

NoComponents ==
  /\ pagination = NoPagination
  /\ importCache = NoImportCache
  /\ modal = NoModal
  /\ zooTimestamp = NoTimestamp
  /\ conductor = NoConductor

Init == (InitDataBinder \/ InitTable) /\ NoComponents

MaxCalls == MaxOps + 1

Next ==
  \/ \E params \in ParamChoices : GetData(params)
  \/ \E c \in 1..MaxCalls, json \in FetchedData : FetchReturnsData(c, json)
  \/ \E c \in 1..MaxCalls, body \in Bodies : FetchReturnsOkResponse(c, body)
  \/ \E c \in 1..MaxCalls : FetchReturnsNotOkResponse(c)
  \/ \E c \in 1..MaxCalls : JsonResolves(c)
  \/ \E c \in 1..MaxCalls : JsonRejects(c)
  \/ \E c \in 1..MaxCalls : FetchRejects(c)
  \/ \E json \in PushedData : SetData(json)
  \/ Dispose
  \/ \E c \in 1..MaxCalls, json \in FetchedData : FetchJsonResolves(c, json)
  \/ \E c \in 1..MaxCalls : FetchJsonRejects(c)
  \/ \E json \in PushedData : BinderSetData(json)
  \/ \E page \in 1..MaxPage : ClickPage(page)
  \/ LitUpdated
  \/ \E size \in PageSizes : ChangePageSize(size)
  \/ \E value \in SearchValues : SearchOnEnter(value)
  \/ ClearSearch
  \/ \E ordering \in Orderings : SortColumn(ordering)
  \/ \E values \in FilterValues : ApplyFilter(values)
  \/ ResetFilter

Spec == Init /\ [][Next]_vars

(***************************************************************************)
(* What the properties below read off a state.                             *)
(***************************************************************************)
\* the binder has just rendered the payload it holds: the last thing it did
\* is setData (or the 'data-loaded' that follows it) for that payload
RenderedNow ==
  /\ log # <<>>
  /\ log[Len(log)].ev \in {"setData", "data-loaded"}
  /\ data = log[Len(log)].detail.data
  /\ Truthy(data)

\* the texts of the elements of a forest
RECURSIVE TextsOf(_)
TextsOf(forest) ==
  UNION {{forest[i].text} \cup TextsOf(forest[i].kids) : i \in 1..Len(forest)}

\* the marker of a repeating section and of its data path, per class
TemplateAttr == IF binder = "DataBinder" THEN "data-bind-template" ELSE "zoo-template"

PathAttr == IF binder = "DataBinder" THEN "data-path" ELSE "zoo-template-bind"

\* the elements of a forest that carry an attribute
RECURSIVE ElementsWith(_, _)
ElementsWith(forest, attr) ==
  UNION {(IF hasAttribute(forest[i], attr) THEN {forest[i]} ELSE {})
           \cup ElementsWith(forest[i].kids, attr) : i \in 1..Len(forest)}

\* the repeating sections in the document now
Consumers == ElementsWith(root.kids, TemplateAttr)

\* the template a repeating section names, NoElement when there is none
TemplateOf(consumer) ==
  IF consumer.attrs[TemplateAttr] = "" THEN NoElement
  ELSE IF binder = "DataBinder"
       THEN FirstWithId(<<root>> \o Outside, consumer.attrs[TemplateAttr])
       ELSE FirstWithId(root.kids, consumer.attrs[TemplateAttr])

\* the part of the payload a repeating section shows
SliceOf(consumer, json) ==
  IF hasAttribute(consumer, PathAttr) /\ consumer.attrs[PathAttr] # ""
  THEN RPath(SplitPath(consumer.attrs[PathAttr]), json)
  ELSE json

\* the repeating section has a template and its slice of json is an array
Repeats(consumer, json) ==
  /\ TemplateOf(consumer) # NoElement
  /\ TemplateOf(consumer).tag = "TEMPLATE"
  /\ SliceOf(consumer, json).t = "array"

\* the clone of the template of a repeating section for one item
CloneOf(consumer, item, index) ==
  IF binder = "DataBinder"
  THEN renderTemplateItem(TemplateOf(consumer), offset, item, index)
  ELSE Binder_renderTemplateItem(TemplateOf(consumer), url, item, index)

\* C1: right after a render, every repeating section whose template
\* resolves and whose slice of the payload is an array of N items holds
\* nothing of what it held before, but exactly the N clones of its template
\* in the order of the array, clone k bound to item k (it shows item k's name).
C1_ClonesPerItem ==
  RenderedNow =>
    \A consumer \in Consumers :
      LET items == SliceOf(consumer, data).a
      IN Repeats(consumer, data) =>
           /\ consumer.text = ""
           /\ Len(consumer.kids) = Len(items)
           /\ consumer.kids =
                Flatten([k \in 1..Len(items) |-> CloneOf(consumer, items[k], k - 1)])
           /\ \A k \in 1..Len(items) :
                items[k].o.name.s \in TextsOf(<<consumer.kids[k]>>)

\* a second render has replaced what an earlier one left: a repeating section
\* shows the two items of the payload rendered last
C1_Witness ==
  /\ RenderedNow
  /\ Len(SelectSeq(log, LAMBDA e : e.ev = "setData")) >= 2
  /\ \E consumer \in Consumers :
       /\ Repeats(consumer, data)
       /\ Len(SliceOf(consumer, data).a) = 2
       /\ Len(consumer.kids) = 2

\* the elements of a forest that neither are nor lie inside a repeating
\* section
RECURSIVE RootLevel(_)
RootLevel(forest) ==
  UNION {IF hasAttribute(forest[i], TemplateAttr) THEN {}
         ELSE {forest[i]} \cup RootLevel(forest[i].kids) : i \in 1..Len(forest)}

\* the document as it was before the first render
Pristine == IF hasAttribute(root, "data-pagination-event") THEN RootB ELSE RootA

\* the text a root-level element with data-bind shows for json
BoundText(el, json) ==
  LET raw == getValue(offset, json, el.attrs["data-bind"], 0)
      value == IF /\ hasAttribute(el, "data-bind-format")
                  /\ el.attrs["data-bind-format"] \in FormatterNames
               THEN FormatJson(raw) ELSE raw
  IN IF isDefAndNotNull(value) THEN ToJSString(value) ELSE ""

\* the bindings attr:path of an element with data-bind-attr
AttrBindings(el) ==
  {SplitBindings(el.attrs["data-bind-attr"])[j] :
     j \in 1..Len(SplitBindings(el.attrs["data-bind-attr"]))}

\* C2 as stated: right after a refresh of a DataBinder (setData, or a getData
\* that succeeded) the document under the root is what binding the latest
\* payload alone yields, the same as rendering that payload into the
\* document as authored; nothing of an earlier payload remains.
C2_LatestPayloadAlone ==
  ( /\ binder = "DataBinder"
    /\ RenderedNow
    /\ \/ log[Len(log)].call = 0
       \/ calls[log[Len(log)].call].stage = "resolved" )
  => root = render(Pristine, Outside, offset, data)

\* C2 amended: right after a DataBinder refresh with a truthy payload, every
\* root-level bound text and show/hide state is the one of the latest payload,
\* every bound attribute whose value in the latest payload is neither
\* undefined nor null holds that value, and every repeating section whose
\* template resolves and whose slice is an array holds the clones of the
\* latest payload only.
C2_RefreshRebinds ==
  (binder = "DataBinder" /\ RenderedNow) =>
    /\ \A el \in RootLevel(root.kids) :
         /\ hasAttribute(el, "data-bind") =>
              el.text = BoundText(el, data) /\ el.kids = <<>>
         /\ hasAttribute(el, "data-bind-attr") =>
              \A b \in AttrBindings(el) :
                LET value == getValue(offset, data, b[2], 0)
                IN isDefAndNotNull(value) =>
                     /\ hasAttribute(el, b[1])
                     /\ el.attrs[b[1]] = ToJSString(value)
         /\ hasAttribute(el, "data-bind-hide-if") =>
              (el.display = "none") =
                Truthy(getValue(offset, data, el.attrs["data-bind-hide-if"], 0))
         /\ (hasAttribute(el, "data-bind-show-if")
               /\ ~hasAttribute(el, "data-bind-hide-if")) =>
              (el.display = "none") =
                ~Truthy(getValue(offset, data, el.attrs["data-bind-show-if"], 0))
    /\ \A consumer \in Consumers :
         Repeats(consumer, data) =>
           consumer.kids =
             Flatten([k \in 1..Len(SliceOf(consumer, data).a) |->
                        CloneOf(consumer, SliceOf(consumer, data).a[k], k - 1)])

\* two refreshes with different payloads, and the heading shows the name of
\* the later one
C2_Witness ==
  /\ binder = "DataBinder"
  /\ RenderedNow
  /\ \E i \in 1..Len(log) :
       log[i].ev = "setData" /\ Truthy(log[i].detail.data) /\ log[i].detail.data # data
  /\ \E el \in RootLevel(root.kids) :
       /\ hasAttribute(el, "data-bind") /\ el.attrs["data-bind"] = "name"
       /\ RHas("name", data)
       /\ el.text = data.o.name.s

\* every payload of the model that a render goes on with
Payloads ==
  {json \in FetchedData \cup (Bodies \ {NotJson}) \cup PushedData \cup {RejectedPromise} :
     Truthy(json)}

\* the root after the root-level pass of a render of json
RootPass(json) ==
  IF binder = "DataBinder"
  THEN renderRootBindings(root, offset, json)
  ELSE Binder_renderRootBindings(root, url, json)

\* C3: whatever the document holds and whatever payload is rendered, the
\* root-level simple-binding pass of a render leaves every repeating section
\* (the element with data-bind-template or zoo-template and all below it) as
\* it found it: same text, same attributes, same visibility.
C3_RootPassSparesSections ==
  \A json \in Payloads :
    ElementsWith(RootPass(json).kids, TemplateAttr) = Consumers

\* a render has gone over the document, its payload has a name, and a
\* repeating section it could not fill still holds its static row with
\* data-bind="name" untouched
C3_Witness ==
  /\ RenderedNow
  /\ RHas("name", data)
  /\ \E consumer \in Consumers :
       /\ ~Repeats(consumer, data)
       /\ consumer.kids # <<>>
       /\ consumer.kids[1].text = "loading"
       /\ \E a \in {"data-bind", "zoo-bind"} :
            hasAttribute(consumer.kids[1], a) /\ consumer.kids[1].attrs[a] = "name"

\* the offset parameter of Binder's url as a number, 0 when there is none
UrlOffset == IF "offset" \in DOMAIN url THEN parseInt(url["offset"]).n ELSE 0

\* C5: right after a Binder render, in the row at position i (0-based) of a
\* repeating section, $index shows i and $index1 shows i+1 whatever the
\* offset, while $index__paged shows offset+i and $index1__paged shows
\* offset+i+1, offset being the offset parameter of the Binder's url.
C5_BinderIndexTokens ==
  (binder = "Binder" /\ RenderedNow) =>
    \A consumer \in Consumers :
      Repeats(consumer, data) =>
        \A k \in 1..Len(consumer.kids) :
          LET row == consumer.kids[k]
          IN /\ row.kids[1].text = IntToString(k - 1)
             /\ row.kids[2].text = IntToString(k)
             /\ row.kids[3].text = IntToString(UrlOffset + k - 1)
             /\ row.kids[4].text = IntToString(UrlOffset + k)
             /\ row.attrs["data-row"] = IntToString(UrlOffset + k - 1)

\* the second page of a table: the url has offset 2, the first row shows 0
\* and 1 for the page-local tokens and 2 and 3 for the paged ones
C5_Witness ==
  /\ binder = "Binder"
  /\ RenderedNow
  /\ UrlOffset = 2
  /\ \E consumer \in Consumers :
       /\ Repeats(consumer, data)
       /\ consumer.kids # <<>>
       /\ consumer.kids[1].kids[1].text = "0"
       /\ consumer.kids[1].kids[2].text = "1"
       /\ consumer.kids[1].kids[3].text = "2"
       /\ consumer.kids[1].kids[4].text = "3"

\* the tag and the path of each element below a forest that carries attr
RECURSIVE Marked(_, _)
Marked(forest, attr) ==
  UNION {(IF hasAttribute(forest[i], attr)
          THEN {<<forest[i].tag, forest[i].attrs[attr]>>} ELSE {})
           \cup Marked(forest[i].kids, attr) : i \in 1..Len(forest)}

\* the tags of the elements of a forest
RECURSIVE TagsOf(_)
TagsOf(forest) ==
  UNION {{forest[i].tag} \cup TagsOf(forest[i].kids) : i \in 1..Len(forest)}

\* the two conditions of an element do not contradict each other for json
Agree(el, json) ==
  (hasAttribute(el, "data-bind-show-if") /\ hasAttribute(el, "data-bind-hide-if"))
    => Truthy(getValue(offset, json, el.attrs["data-bind-show-if"], 0))
         # Truthy(getValue(offset, json, el.attrs["data-bind-hide-if"], 0))

NamesOf(c) ==
  LET mine == SelectSeq(log, LAMBDA e : e.call = c)
  IN [i \in 1..Len(mine) |-> mine[i].ev]

\* the name of the pagination event on this root
PaginationName ==
  IF hasAttribute(root, "data-pagination-event")
  THEN root.attrs["data-pagination-event"] ELSE "data-pagination"

\* the payload call c handed to setData
PayloadOf(c) ==
  LET mine == SelectSeq(log, LAMBDA e : e.call = c /\ e.ev = "setData")
  IN mine[1].detail.data

\* the offset and limit parameters of the request of call c as numbers,
\* the fallback when the parameter is absent or is not a number
RequestParam(c, key, fallback) ==
  IF key \in DOMAIN calls[c].searchParams
       /\ parseInt(calls[c].searchParams[key]) # NaN
  THEN parseInt(calls[c].searchParams[key]).n
  ELSE fallback

\* C4 as stated: right after the render of a getData call that succeeded,
\* the row at position i (0-based) of a repeating section shows o+i+1 for
\* $index1 and carries o+i for $index, o being the offset parameter of that
\* call's request (0 when it has none).
C4_RowNumbersOfTheCall ==
  ( /\ binder = "DataBinder"
    /\ RenderedNow
    /\ log[Len(log)].ev = "data-loaded"
    /\ calls[log[Len(log)].call].stage = "resolved" )
  => \A consumer \in Consumers :
       Repeats(consumer, data) =>
         \A k \in 1..Len(consumer.kids) :
           LET o == RequestParam(log[Len(log)].call, "offset", 0)
           IN /\ consumer.kids[k].kids[1].text = IntToString(o + k)
              /\ consumer.kids[k].attrs["data-row"] = IntToString(o + k - 1)

\* C7: for every getData call of a DataBinder that succeeded, what the binder
\* did for the call is, in this order: 'data-loading', the request, the
\* pagination event if and only if the response is DRF-paginated, setData of
\* the response, 'data-loaded' carrying the response; and no 'data-error'.
C7_SuccessEventOrder ==
  binder = "DataBinder" =>
    \A c \in DOMAIN calls :
      calls[c].stage = "resolved" =>
        /\ NamesOf(c) =
             <<"data-loading", "fetch">>
               \o (IF RHas("count", PayloadOf(c)) /\ RHas("results", PayloadOf(c))
                   THEN <<PaginationName>> ELSE <<>>)
               \o <<"setData", "data-loaded">>
        /\ \A i \in 1..Len(log) :
             (log[i].call = c /\ log[i].ev = "data-loaded") =>
               log[i].detail.data = PayloadOf(c)

\* a call has succeeded with a DRF-paginated response and its pagination
\* event is in what the binder did
C7_Witness ==
  /\ binder = "DataBinder"
  /\ \E c \in DOMAIN calls :
       /\ calls[c].stage = "resolved"
       /\ RHas("count", PayloadOf(c))
       /\ Len(NamesOf(c)) = 5
       /\ NamesOf(c)[3] = PaginationName
       /\ NamesOf(c)[5] = "data-loaded"

\* C8 as stated: for every getData call whose fetch function rejected or
\* returned a Response that is not ok, the binder dispatched 'data-loading',
\* issued the request and dispatched one 'data-error', and nothing else: no
\* pagination event, no setData, no 'data-loaded'; and the call's promise
\* is rejected.
C8_FailureOnlyDataError ==
  binder = "DataBinder" =>
    \A c \in DOMAIN calls :
      calls[c].failure \in {"fetch-rejected", "response-not-ok"} =>
        /\ NamesOf(c) = <<"data-loading", "fetch", "data-error">>
        /\ calls[c].stage = "rejected"

\* C9 as stated: a getData response with both count and results causes
\* exactly one pagination event, whose limit is the request's limit (100 when
\* absent or not a number), whose offset is the request's offset (0 when
\* absent), page = floor(offset/limit)+1, totalPages = ceil(count/limit),
\* hasNext = (next is not null), hasPrevious = (previous is not null); a
\* response lacking either key causes none.
C9_PaginationDetail ==
  binder = "DataBinder" =>
    \A c \in DOMAIN calls :
      calls[c].stage = "resolved" =>
        LET events == SelectSeq(log, LAMBDA e : e.call = c /\ e.ev = PaginationName)
            json == PayloadOf(c)
            limit == IF RequestParam(c, "limit", 100) = 0 THEN 100
                     ELSE RequestParam(c, "limit", 100)
            o == RequestParam(c, "offset", 0)
        IN IF RHas("count", json) /\ RHas("results", json)
           THEN /\ Len(events) = 1
                /\ events[1].detail.limit = limit
                /\ events[1].detail.offset = o
                /\ events[1].detail.page = FloorDiv(o, limit) + 1
                /\ events[1].detail.totalPages = CeilDiv(json.o.count.n, limit)
                /\ events[1].detail.hasNext = (json.o.next # JNull)
                /\ events[1].detail.hasPrevious = (json.o.previous # JNull)
           ELSE events = <<>>

\* the events of the paginator in what happened
PaginatorEvents == {"cds-pagination-changed-current", "cds-page-sizes-select-changed"}

\* the page size of the paginator when log[i] was dispatched
PageSizeAt(i) ==
  LET changes == {j \in 1..(i - 1) : log[j].ev = "cds-page-sizes-select-changed"}
  IN IF changes = {} THEN parseInt(root.attrs["data-page-size"]).n
     ELSE log[CHOOSE j \in changes : \A m \in changes : m <= j].detail.pageSize

\* entry j of what happened is a fetch started by page navigation
IsNavigationFetch(j) ==
  /\ j \in 1..Len(log)
  /\ log[j].ev = "fetch"
  /\ calls[log[j].call].cause = "navigation"

\* the offset last fetched by page navigation before log[i], null if none
LastNavigationOffsetAt(i) ==
  LET fetches == {j \in 1..(i - 1) : IsNavigationFetch(j)}
  IN IF fetches = {} THEN JNull
     ELSE parseInt(log[CHOOSE j \in fetches : \A m \in fetches : m <= j]
                     .detail.searchParams["offset"])

\* log[i] is the second event of a navigation: the paginator event before it
\* is the click's event for the same page
RepeatsClick(i) ==
  LET before == {j \in 1..(i - 1) : log[j].ev \in PaginatorEvents}
      j == CHOOSE m \in before : \A n \in before : n <= m
  IN /\ log[i].detail.origin = "updated"
     /\ before # {}
     /\ log[j].ev = "cds-pagination-changed-current"
     /\ log[j].detail.origin = "click"
     /\ log[j].detail.page = log[i].detail.page

\* C10: in a Binder-backed table, the listener of
\* cds-pagination-changed-current starts a fetch if and only if the offset of
\* the event, (page-1)*pageSize, differs from the offset last fetched by page
\* navigation; of the two events of one navigation the first starts a fetch
\* and the second starts none.
C10_OneFetchPerNavigation ==
  binder = "Binder" =>
    \A i \in 1..Len(log) :
      log[i].ev = "cds-pagination-changed-current" =>
        /\ IsNavigationFetch(i + 1) =
             (JNum((log[i].detail.page - 1) * PageSizeAt(i)) # LastNavigationOffsetAt(i))
        /\ log[i].detail.origin = "click" => IsNavigationFetch(i + 1)
        /\ RepeatsClick(i) => ~IsNavigationFetch(i + 1)

\* a navigation is over: the click's event started a fetch and the event
\* that followed it for the same page started none
C10_Witness ==
  /\ binder = "Binder"
  /\ table.pending = <<>>
  /\ \E i \in 1..Len(log) :
       /\ log[i].ev = "cds-pagination-changed-current"
       /\ RepeatsClick(i)
       /\ ~IsNavigationFetch(i + 1)
       /\ \E j \in 1..(i - 1) :
            /\ log[j].ev = "cds-pagination-changed-current"
            /\ log[j].detail.origin = "click"
            /\ log[j].detail.page = log[i].detail.page
            /\ IsNavigationFetch(j + 1)

(***************************************************************************)
(* C11: the handlers of a table with a binder exist only after the first   *)
(* fetch has resolved and its data has been rendered                       *)
(***************************************************************************)
\* the causes of the fetches issued by the table's handlers
HandlerCauses == {"navigation", "page-size", "search", "clear-search", "sort", "filter"}

\* the positions in the log at which a handler issued its fetch
HandlerFetches == {i \in 1..Len(log) : log[i].ev = "fetch" /\ calls[log[i].call].cause \in HandlerCauses}

\* C11: for a table with a data binder, every fetch issued by a pagination,
\* search, filter or sort handler comes after the data of the initial fetch
\* has been set and rendered; while the initial fetch is outstanding, and
\* after it has failed, it is the only request
C11_HandlersAfterInitialFetch ==
  binder = "Binder" =>
    /\ calls[1].cause = "init"
    /\ calls[1].stage # "resolved" => Len(calls) = 1 /\ ~table.ready
    /\ \A i \in HandlerFetches :
         \E j \in 1..(i - 1) : log[j].ev = "setData" /\ log[j].call = 1

\* every kind of handler has issued a fetch after the initial one resolved
C11_Witness ==
  /\ binder = "Binder"
  /\ calls[1].stage = "resolved"
  /\ Len(calls) = 3
  /\ {calls[2].cause, calls[3].cause} \subseteq {"sort", "filter"}
  /\ calls[2].cause # calls[3].cause

(***************************************************************************)
(* C12: Enter in the search field of a table with a binder                 *)
(***************************************************************************)
\* the positions in the log at which the search listener issued its fetch;
\* the keydown event with the field's value is the entry before it
SearchFetches == {i \in 1..Len(log) : log[i].ev = "fetch" /\ calls[log[i].call].cause = "search"}

\* the first cds-table-body of the table has no children
TableBodyCleared ==
  LET found == PathsOfTag(root.kids, "cds-table-body", <<>>)
  IN found # <<>> /\ NodeAt(root.kids, found[1]).kids = <<>>

\* what holds of the table when the search request has just been issued, and
\* when its data has just been loaded
SearchAroundRequest ==
  /\ (Len(log) \in SearchFetches) =>
       /\ table.skeleton = "shown"
       /\ table.totalItems = 0
       /\ TableBodyCleared
  /\ (/\ log[Len(log)].ev = "setData" /\ log[Len(log)].call # 0
      /\ calls[log[Len(log)].call].cause = "search") => table.skeleton = "hidden"

\* C12 as stated: on Enter in the search field of a table with a binder the
\* skeleton is shown and the table body cleared before the request is issued,
\* the request carries search=<field value> and offset=0 whatever page was
\* displayed, and the skeleton is hidden after the data has loaded
C12_RequestCarriesFieldValue ==
  binder = "Binder" =>
    /\ SearchAroundRequest
    /\ \A i \in SearchFetches :
         LET searchParams == log[i].detail.searchParams
         IN /\ "search" \in DOMAIN searchParams
            /\ searchParams["search"] = log[i - 1].detail.value
            /\ "offset" \in DOMAIN searchParams /\ searchParams["offset"] = "0"

\* C12 amended: the same, except that with an empty search field the request
\* carries no search parameter at all (one left by an earlier search is
\* removed); a non-empty field value is carried as search=<field value>
C12_SearchOnEnter ==
  binder = "Binder" =>
    /\ SearchAroundRequest
    /\ \A i \in SearchFetches :
         LET searchParams == log[i].detail.searchParams
             value == log[i - 1].detail.value
         IN /\ log[i - 1].ev = "keydown"
            /\ IF value = "" THEN "search" \notin DOMAIN searchParams
               ELSE "search" \in DOMAIN searchParams /\ searchParams["search"] = value
            /\ "offset" \in DOMAIN searchParams /\ searchParams["offset"] = "0"

\* a search for "ann" issued while page 2 was displayed has loaded its data
C12_Witness ==
  /\ binder = "Binder"
  /\ Len(calls) = 3
  /\ calls[2].cause = "navigation" /\ calls[2].searchParams["offset"] = "2"
  /\ calls[3].cause = "search" /\ calls[3].stage = "resolved"
  /\ "search" \in DOMAIN calls[3].searchParams
  /\ calls[3].searchParams["search"] = "ann" /\ calls[3].searchParams["offset"] = "0"
  /\ log[Len(log)].ev = "setData" /\ log[Len(log)].call = 3
  /\ table.skeleton = "hidden" /\ table.page = 2

(***************************************************************************)
(* A standalone cds-pagination (cdsPaginationWrap).  Carbon's element is   *)
(* modelled as for the table: a navigation sets the page and dispatches    *)
(* cds-pagination-changed-current at once and again when the element       *)
(* updates; a page-size change goes back to page 1.                        *)
(***************************************************************************)
\* no binder and no table on the page
NoBinder ==
  /\ binder = "none"
  /\ root = El("div", NoAttrs, "", <<>>)
  /\ data = JNull
  /\ offset = 0
  /\ calls = <<>>
  /\ url = [k \in {} |-> ""]
  /\ table = NoTable

\* every change-current event is passed on
dispatchEveryEvent(navigationOffset, lastNavigationOffset) == TRUE

\* if (offset !== lastNavigationOffset)
navigationOffsetDiffers(navigationOffset, lastNavigationOffset) == JNum(navigationOffset) # lastNavigationOffset

\* the listener of CDSPagination.eventChangeCurrent on pagination p, for the
\* event with detail.page = page
onEventChangeCurrent(p, page, origin) ==
  LET pageSize == p.pageSize
      navigationOffset == (page - 1) * pageSize
      event == Event("cds-pagination-changed-current", 0,
                     [page |-> page, origin |-> origin, pageSize |-> pageSize])
  IN IF navigationOffsetDiffers(navigationOffset, p.lastNavigationOffset)
     THEN /\ pagination' = [p EXCEPT !.lastNavigationOffset = JNum(navigationOffset)]
          /\ log' = log \o << event,
                 Event("pagination-changed-current", 0,
                       [page |-> page, pageSize |-> pageSize, action |-> "page-change"]) >>
     ELSE /\ pagination' = p
          /\ log' = Append(log, event)

\* the user moves the standalone paginator to another page
PaginationClickPage(page) ==
  /\ binder = "none" /\ pagination.pageSize > 0
  /\ pagination.pending = <<>>
  /\ ops < MaxPagerOps
  /\ page # pagination.page
  /\ ops' = ops + 1
  /\ onEventChangeCurrent([pagination EXCEPT !.page = page, !.pending = <<page>>],
                          page, "click")
  /\ UNCHANGED othersThanPagination

\* the update Carbon scheduled runs and dispatches the event again
PaginationLitUpdated ==
  /\ binder = "none" /\ pagination.pageSize > 0
  /\ pagination.pending # <<>>
  /\ onEventChangeCurrent([pagination EXCEPT !.pending = Tail(pagination.pending)],
                          Head(pagination.pending), "updated")
  /\ UNCHANGED <<othersThanPagination, ops>>

\* the user picks another page size: the listener of
\* CDSPagination.eventPageSizeChanged
PaginationChangePageSize(size) ==
  /\ binder = "none" /\ pagination.pageSize > 0
  /\ pagination.pending = <<>>
  /\ ops < MaxPagerOps
  /\ size # pagination.pageSize
  /\ ops' = ops + 1
  /\ pagination' = [pagination EXCEPT !.pageSize = size, !.page = 1,
                        !.pending = IF pagination.page # 1 THEN <<1>> ELSE <<>>,
                        !.lastNavigationOffset = JNull]
  /\ log' = log \o << Event("cds-page-sizes-select-changed", 0, [pageSize |-> size]),
                       Event("pagination-changed-page-size", 0,
                             [page |-> 1, pageSize |-> size, action |-> "page-size-change"]) >>
  /\ UNCHANGED othersThanPagination

\* cdsPaginationWrap.init(pagination) has run on a paginator on page 1
InitPagination ==
  /\ NoBinder
  /\ log = <<>>
  /\ ops = 0
  /\ importCache = NoImportCache
  /\ modal = NoModal
  /\ zooTimestamp = NoTimestamp
  /\ conductor = NoConductor
  /\ pagination = [page |-> 1, pageSize |-> 2, pending |-> <<>>, lastNavigationOffset |-> JNull]

NextPagination ==
  \/ \E page \in 1..MaxPage : PaginationClickPage(page)
  \/ PaginationLitUpdated
  \/ \E size \in PageSizes : PaginationChangePageSize(size)

SpecPagination == InitPagination /\ [][NextPagination]_vars

(***************************************************************************)
(* C13: what a standalone cds-pagination passes on to the panel            *)
(***************************************************************************)
\* the positions of the paginator's own events in the log
ChangeCurrentAt == {i \in 1..Len(log) : log[i].ev = "cds-pagination-changed-current"}
PageSizeChangedAt == {i \in 1..Len(log) : log[i].ev = "cds-page-sizes-select-changed"}

\* the panel event name dispatched for the paginator event at i, "" if none
PanelEventAfter(i) ==
  IF i < Len(log) /\ log[i + 1].ev \in {"pagination-changed-current", "pagination-changed-page-size"}
  THEN log[i + 1].ev ELSE ""

\* the offset of the change-current event at i
NavigationOffsetAt(i) == (log[i].detail.page - 1) * log[i].detail.pageSize

\* i and j are change-current events with no paginator event between them
ConsecutiveChangeCurrent(i, j) ==
  /\ i < j
  /\ \A m \in (i + 1)..(j - 1) : m \notin ChangeCurrentAt \cup PageSizeChangedAt

\* C13: of consecutive change-current events with the same offset at most one
\* is passed on as 'pagination-changed-current'; every page-size change is
\* passed on as 'pagination-changed-page-size' with page 1 and the new size
\* and forgets the remembered offset, so that the first change-current event
\* after a page-size change is always passed on
C13_StandalonePagination ==
  binder = "none" /\ pagination.pageSize > 0 =>
    /\ \A i \in ChangeCurrentAt : \A j \in ChangeCurrentAt :
         (ConsecutiveChangeCurrent(i, j) /\ NavigationOffsetAt(i) = NavigationOffsetAt(j))
           => PanelEventAfter(j) = ""
    /\ \A i \in PageSizeChangedAt :
         /\ PanelEventAfter(i) = "pagination-changed-page-size"
         /\ log[i + 1].detail = [page |-> 1, pageSize |-> log[i].detail.pageSize,
                                 action |-> "page-size-change"]
         /\ (i + 1 = Len(log)) => pagination.lastNavigationOffset = JNull
         /\ \A j \in ChangeCurrentAt :
              (j > i /\ \A m \in (i + 1)..(j - 1) : m \notin ChangeCurrentAt)
                => /\ PanelEventAfter(j) = "pagination-changed-current"
                   /\ log[j + 1].detail = [page |-> log[j].detail.page,
                                           pageSize |-> log[j].detail.pageSize,
                                           action |-> "page-change"]

\* a navigation's repeated event was dropped, then a page-size change
\* was passed on and the change-current event after it was passed on too
C13_Witness ==
  /\ binder = "none"
  /\ \E i \in ChangeCurrentAt : \E j \in ChangeCurrentAt :
       /\ ConsecutiveChangeCurrent(i, j) /\ NavigationOffsetAt(i) = NavigationOffsetAt(j)
       /\ PanelEventAfter(i) = "pagination-changed-current" /\ PanelEventAfter(j) = ""
       /\ \E k \in PageSizeChangedAt : \E n \in ChangeCurrentAt :
            j < k /\ k < n /\ PanelEventAfter(n) = "pagination-changed-current"

(***************************************************************************)
(* loadComponentImports(importFunctions, cache).  An import function is    *)
(* () => import(...): invoking it returns a promise that settles later.    *)
(***************************************************************************)
\* a cache that answers only for imports that have settled
cacheHasSettled(promises, importFn) == importFn \in DOMAIN promises /\ promises[importFn] # "pending"

\* cache.has(importFn)
cacheHas(promises, importFn) == importFn \in DOMAIN promises

\* the import functions a call has to invoke
notCached(promises, importFunctions) == {f \in importFunctions : ~cacheHas(promises, f)}

\* Promise.all over the cached promises of a call: rejected as soon as one
\* is, fulfilled when all are
promiseAll(promises, importFunctions) ==
  IF \E f \in importFunctions : promises[f] = "rejected" THEN "rejected"
  ELSE IF \A f \in importFunctions : promises[f] = "fulfilled" THEN "fulfilled"
  ELSE "pending"

\* loadComponentImports up to its await: every function not in the cache is
\* invoked and its promise cached; an empty set returns at once
LoadComponentImports(importFunctions) ==
  LET missing == notCached(importCache.promises, importFunctions)
      promises == [f \in (DOMAIN importCache.promises) \cup missing |->
                     IF f \in missing THEN "pending" ELSE importCache.promises[f]]
  IN /\ binder = "none"
     /\ Len(importCache.loads) < MaxLoads
     /\ importCache' =
          [promises |-> promises,
           invoked |-> [f \in ImportFns |->
                          importCache.invoked[f] + (IF f \in missing THEN 1 ELSE 0)],
           loads |-> Append(importCache.loads,
                       [importFunctions |-> importFunctions,
                        joined |-> {f \in importFunctions \ missing :
                                      importCache.promises[f] = "pending"},
                        state |-> IF importFunctions = {} THEN "returned" ELSE "awaiting"])]
     /\ UNCHANGED <<othersThanImportCache, log, ops>>

\* the promise of an import settles
ImportSettles(importFn, outcome) ==
  /\ binder = "none"
  /\ importFn \in DOMAIN importCache.promises
  /\ importCache.promises[importFn] = "pending"
  /\ importCache' = [importCache EXCEPT !.promises[importFn] = outcome]
  /\ UNCHANGED <<othersThanImportCache, log, ops>>

\* await Promise.all(loadPromises) ends for call k
LoadReturns(k) ==
  /\ binder = "none"
  /\ k \in DOMAIN importCache.loads
  /\ importCache.loads[k].state = "awaiting"
  /\ promiseAll(importCache.promises, importCache.loads[k].importFunctions) # "pending"
  /\ importCache' = [importCache EXCEPT !.loads[k].state =
        IF promiseAll(importCache.promises, importCache.loads[k].importFunctions) = "fulfilled"
        THEN "returned" ELSE "thrown"]
  /\ UNCHANGED <<othersThanImportCache, log, ops>>

\* an empty cache (the Map the caller owns) and no call yet
InitImports ==
  /\ NoBinder
  /\ log = <<>>
  /\ ops = 0
  /\ pagination = NoPagination
  /\ importCache = NoImportCache
  /\ modal = NoModal
  /\ zooTimestamp = NoTimestamp
  /\ conductor = NoConductor

NextImports ==
  \/ \E importFunctions \in SUBSET ImportFns : LoadComponentImports(importFunctions)
  \/ \E importFn \in ImportFns, outcome \in {"fulfilled", "rejected"} : ImportSettles(importFn, outcome)
  \/ \E k \in 1..MaxLoads : LoadReturns(k)

SpecImports == InitImports /\ [][NextImports]_vars

(***************************************************************************)
(* C14: one invocation per import function and cache                       *)
(***************************************************************************)
\* C14: for a given cache every import function has been invoked at most
\* once, whatever calls of loadComponentImports were made and whether or not
\* its import was still in flight when a later call asked for it; a function
\* has been invoked exactly if its promise is in the cache, and a call
\* returns only when the cached promises of all its functions are fulfilled
C14_ImportedAtMostOnce ==
  /\ \A f \in ImportFns :
       /\ importCache.invoked[f] <= 1
       /\ importCache.invoked[f] = 1 <=> f \in DOMAIN importCache.promises
  /\ \A k \in DOMAIN importCache.loads :
       LET load == importCache.loads[k]
       IN /\ load.importFunctions \subseteq DOMAIN importCache.promises
          /\ (load.state = "returned") =>
               \A f \in load.importFunctions : importCache.promises[f] = "fulfilled"
          /\ (load.state = "thrown") =>
               \E f \in load.importFunctions : importCache.promises[f] = "rejected"

\* a second call asked for an import that was still in flight, and both
\* calls have returned after that one invocation
C14_Witness ==
  \E k \in DOMAIN importCache.loads : \E f \in ImportFns :
     /\ k > 1
     /\ f \in importCache.loads[k].joined
     /\ f \in importCache.loads[1].importFunctions
     /\ importCache.loads[1].state = "returned"
     /\ importCache.loads[k].state = "returned"
     /\ importCache.invoked[f] = 1

(***************************************************************************)
(* A cds-modal initialised by the modal component configuration.  Carbon's *)
(* element is outside the repository: every close method dispatches the    *)
(* cancelable eventBeforeClose and, unless a listener cancelled it, closes *)
(* the modal and dispatches eventClose, both with detail.triggeredBy.      *)
(***************************************************************************)
\* the attribute sets of the modal element
ModalAttrs ==
  { NoAttrs,
    [a \in {"event", "record-id"} |-> IF a = "event" THEN "modal_evt" ELSE "7"],
    [a \in {"open-event", "before-close-event", "primary-event"} |->
       CASE a = "open-event" -> "opened" [] a = "before-close-event" -> "closing"
         [] OTHER -> "save"],
    [a \in {"before-close-event"} |-> "destroy_me"],
    [a \in {"zoo-event"} |-> "destroy_me"] }

\* what triggered a close: the close button, the ESC key, the backdrop
CloseMethods == {"close-button", "keyboard", "backdrop"}

\* SEMANTIC_ATTRS: attribute name to property name
SEMANTIC_ATTRS ==
  [a \in {"event", "endpoint", "href", "url", "target", "record-id",
           "zoo-sort-field", "zoo-view", "zoo-event", "zoo-href"} |->
     CASE a = "record-id" -> "recordId"
       [] a = "zoo-sort-field" -> "sortField"
       [] a = "zoo-view" -> "view"
       [] a = "zoo-event" -> "event"
       [] a = "zoo-href" -> "href"
       [] OTHER -> a]

\* getSemanticAttributes(element), for attributes of the vocabulary
getSemanticAttributes(attrs) ==
  LET named == {a \in DOMAIN attrs : a \in DOMAIN SEMANTIC_ATTRS}
  IN [k \in {SEMANTIC_ATTRS[a] : a \in named} |->
        attrs[CHOOSE a \in named : SEMANTIC_ATTRS[a] = k]]

\* element.getAttribute(name)
getAttribute(attrs, name) == IF name \in DOMAIN attrs THEN JStr(attrs[name]) ELSE JNull

\* getEventAttribute(element, eventType, fallback)
getEventAttribute(attrs, eventType, fallback) ==
  IF Truthy(getAttribute(attrs, eventType)) THEN getAttribute(attrs, eventType)
  ELSE getAttribute(attrs, fallback)

\* an event dispatched by Carbon's element
CarbonEvent(name, detail) ==
  Event(name, 0, [k \in (DOMAIN detail) \cup {"carbon"} |->
                    IF k = "carbon" THEN "cds-modal" ELSE detail[k]])

\* panel.dispatchPanelEvent(name, {...attrs, ...more})
dispatchPanelEvent(name, attrs, more) ==
  Event(name, 0, [k \in (DOMAIN attrs) \cup (DOMAIN more) |->
                    IF k \in DOMAIN more THEN more[k] ELSE attrs[k]])

\* the panel events of a listener that exists only if its event attribute
\* is there
ifListening(eventName, attrs, more) ==
  IF Truthy(eventName) THEN << dispatchPanelEvent(eventName.s, attrs, more) >> ELSE <<>>

\* the close listener exists only if the modal names a close event
closeListenerByAttribute(attrs, triggeredBy) ==
  ifListening(getEventAttribute(attrs, "close-event", "event"),
              getSemanticAttributes(attrs), [action |-> "closed", triggeredBy |-> triggeredBy])

\* the listener of CDSModal.eventClose
closeListener(attrs, triggeredBy) ==
  << dispatchPanelEvent("destroy_me", getSemanticAttributes(attrs),
                        [action |-> "closed", triggeredBy |-> triggeredBy]) >>

\* the modal opens
ModalOpen ==
  /\ binder = "none" /\ ~modal.open
  /\ ops < MaxModalOps
  /\ ops' = ops + 1
  /\ modal' = [modal EXCEPT !.open = TRUE]
  /\ log' = log \o << CarbonEvent("cds-modal-beingopened", NoAttrs) >>
                 \o ifListening(getEventAttribute(modal.attrs, "open-event", "event"),
                                getSemanticAttributes(modal.attrs), [action |-> "opened"])
  /\ UNCHANGED othersThanModal

\* the primary button of the modal
ModalPrimary ==
  /\ binder = "none" /\ modal.open
  /\ ops < MaxModalOps
  /\ ops' = ops + 1
  /\ log' = log \o << CarbonEvent("cds-modal-primary-focus", NoAttrs) >>
                 \o ifListening(getEventAttribute(modal.attrs, "primary-event", "event"),
                                getSemanticAttributes(modal.attrs), [action |-> "primary"])
  /\ UNCHANGED <<othersThanModal, modal>>

\* a close is requested by one of the close methods; another listener of
\* eventBeforeClose may cancel it
ModalClose(triggeredBy, cancelled) ==
  /\ binder = "none" /\ modal.open
  /\ ops < MaxModalOps
  /\ ops' = ops + 1
  /\ modal' = [modal EXCEPT !.open = cancelled]
  /\ log' = log \o << CarbonEvent("cds-modal-beingclosed", [triggeredBy |-> triggeredBy]) >>
                 \o ifListening(getAttribute(modal.attrs, "before-close-event"),
                                getSemanticAttributes(modal.attrs),
                                [action |-> "closing", cancelable |-> "true"])
                 \o (IF cancelled THEN <<>>
                     ELSE << CarbonEvent("cds-modal-closed", [triggeredBy |-> triggeredBy]) >>
                          \o closeListener(modal.attrs, triggeredBy))
  /\ UNCHANGED othersThanModal

\* init(modal) has run on a modal, open or not
InitModal ==
  /\ NoBinder
  /\ log = <<>>
  /\ ops = 0
  /\ pagination = NoPagination
  /\ importCache = NoImportCache
  /\ modal \in [attrs : ModalAttrs, open : BOOLEAN]
  /\ zooTimestamp = NoTimestamp
  /\ conductor = NoConductor

NextModal ==
  \/ ModalOpen
  \/ ModalPrimary
  \/ \E triggeredBy \in CloseMethods, cancelled \in BOOLEAN : ModalClose(triggeredBy, cancelled)

SpecModal == InitModal /\ [][NextModal]_vars

(***************************************************************************)
(* C15: every close of a cds-modal asks for its panel to be destroyed      *)
(***************************************************************************)
\* the positions in the log at which the modal closed
ModalClosedAt == {i \in 1..Len(log) : log[i].ev = "cds-modal-closed" /\ "carbon" \in DOMAIN log[i].detail}

\* the positions of the panel events 'destroy_me' with action 'closed'
DestroyMeClosedAt ==
  {i \in 1..Len(log) :
     /\ log[i].ev = "destroy_me" /\ "carbon" \notin DOMAIN log[i].detail
     /\ log[i].detail["action"] = "closed"}

\* C15: every close of a cds-modal, whatever closed it and whatever event
\* attributes the element has, is followed by one panel event 'destroy_me'
\* with action 'closed' and the close's triggeredBy, and there is no other
\* 'destroy_me' with action 'closed'
C15_CloseDispatchesDestroyMe ==
  /\ \A i \in ModalClosedAt :
       /\ i + 1 \in DestroyMeClosedAt
       /\ log[i + 1].detail["triggeredBy"] = log[i].detail["triggeredBy"]
  /\ \A j \in DestroyMeClosedAt : j - 1 \in ModalClosedAt

\* modals with and without event attributes have been closed by each method
C15_Witness ==
  /\ modal.attrs # NoAttrs /\ "event" \notin DOMAIN modal.attrs
  /\ \E i \in ModalClosedAt : \E j \in ModalClosedAt :
       /\ i < j
       /\ log[i].detail["triggeredBy"] = "keyboard"
       /\ log[j].detail["triggeredBy"] = "backdrop"
       /\ {i + 1, j + 1} \subseteq DestroyMeClosedAt

(***************************************************************************)
(* A zoo-timestamp element (ZooTimestamp).  It is a LitElement: setting a  *)
(* property schedules an update that runs as a microtask, once updating    *)
(* has been enabled by the first connection, and calls updated().  The     *)
(* Conductor dispatches 'zoo-tick-60' from a timer, that is in a task of   *)
(* its own, after every pending microtask has run.                         *)
(***************************************************************************)
\* the values of the kind property: the four documented ones and another
Kinds == {"both", "relative", "datetime", "date", "time"}

\* an element that listens whatever its kind
listensForEveryKind(kind) == TRUE

\* _shouldListenToTicks()
_shouldListenToTicks(kind) == kind = "relative" \/ kind = "both"

\* _removeTickListener()
_removeTickListener(el) == [el EXCEPT !.isListening = FALSE]

\* _updateTickListener()
_updateTickListener(el) ==
  LET shouldListen == _shouldListenToTicks(el.kind)
  IN IF shouldListen /\ ~el.isListening THEN [el EXCEPT !.isListening = TRUE]
     ELSE IF ~shouldListen /\ el.isListening THEN _removeTickListener(el)
     ELSE el

\* a Lit update of the element can run now
UpdateRunnable == zooTimestamp.updating /\ zooTimestamp.isUpdatePending

\* connectedCallback()
Connect ==
  /\ binder = "none" /\ ~zooTimestamp.isConnected
  /\ ops < MaxStampOps
  /\ ops' = ops + 1
  /\ zooTimestamp' = _updateTickListener([zooTimestamp EXCEPT !.isConnected = TRUE,
                                                              !.updating = TRUE])
  /\ UNCHANGED <<othersThanTimestamp, log>>

\* disconnectedCallback()
Disconnect ==
  /\ binder = "none" /\ zooTimestamp.isConnected
  /\ ops < MaxStampOps
  /\ ops' = ops + 1
  /\ zooTimestamp' = _removeTickListener([zooTimestamp EXCEPT !.isConnected = FALSE])
  /\ UNCHANGED <<othersThanTimestamp, log>>

\* the kind property (or attribute) is given another value
SetKind(kind) ==
  /\ binder = "none"
  /\ ops < MaxStampOps
  /\ kind # zooTimestamp.kind
  /\ ops' = ops + 1
  /\ zooTimestamp' = [zooTimestamp EXCEPT !.kind = kind, !.isUpdatePending = TRUE,
                         !.changedProperties = zooTimestamp.changedProperties \cup {"kind"}]
  /\ UNCHANGED <<othersThanTimestamp, log>>

\* the scheduled update: render(), then updated(changedProperties)
PerformUpdate ==
  /\ binder = "none"
  /\ UpdateRunnable
  /\ zooTimestamp' =
       LET el == [zooTimestamp EXCEPT !.isUpdatePending = FALSE, !.changedProperties = {}]
       IN IF "kind" \in zooTimestamp.changedProperties THEN _updateTickListener(el) ELSE el
  /\ log' = Append(log, Event("update", 0, [kind |-> zooTimestamp.kind,
                                            changedProperties |-> zooTimestamp.changedProperties]))
  /\ UNCHANGED <<othersThanTimestamp, ops>>

\* the Conductor's timer dispatches 'zoo-tick-60' on the document; a
\* listening element runs _onTimeTick(), which requests an update
Tick ==
  /\ binder = "none"
  /\ ~UpdateRunnable
  /\ ops < MaxStampOps
  /\ ops' = ops + 1
  /\ zooTimestamp' = IF zooTimestamp.isListening
                      THEN [zooTimestamp EXCEPT !.isUpdatePending = TRUE]
                      ELSE zooTimestamp
  /\ log' = Append(log, Event("zoo-tick-60", 0, [kind |-> zooTimestamp.kind,
                                                 handled |-> zooTimestamp.isListening]))
  /\ UNCHANGED othersThanTimestamp

\* a new element whose kind is the default or was given as an attribute; the
\* constructor has requested the first update
InitTimestamp ==
  /\ NoBinder
  /\ log = <<>>
  /\ ops = 0
  /\ pagination = NoPagination
  /\ importCache = NoImportCache
  /\ modal = NoModal
  /\ zooTimestamp \in [kind : Kinds, isConnected : {FALSE}, updating : {FALSE},
                        isListening : {FALSE}, isUpdatePending : {TRUE},
                        changedProperties : {{"kind"}}]
  /\ conductor = NoConductor

NextTimestamp ==
  \/ Connect
  \/ Disconnect
  \/ \E kind \in Kinds : SetKind(kind)
  \/ PerformUpdate
  \/ Tick

SpecTimestamp == InitTimestamp /\ [][NextTimestamp]_vars

(***************************************************************************)
(* C16: a zoo-timestamp listens to ticks only for the kinds that change    *)
(***************************************************************************)
\* the ticks the element's handler has run for
HandledTicks == {i \in 1..Len(log) : log[i].ev = "zoo-tick-60" /\ log[i].detail.handled}

\* C16: a zoo-timestamp whose updates have run has the 'zoo-tick-60' listener
\* only if its kind is 'relative' or 'both'; with kind 'datetime' or 'date'
\* it has none, and no tick has ever run its handler, and so caused an
\* update, while its kind was not 'relative' or 'both'
C16_TickListenerOnlyForRelativeKinds ==
  /\ ~UpdateRunnable =>
       /\ zooTimestamp.isListening => zooTimestamp.kind \in {"relative", "both"}
       /\ zooTimestamp.kind \in {"datetime", "date"} => ~zooTimestamp.isListening
  /\ \A i \in HandledTicks : log[i].detail.kind \in {"relative", "both"}
  /\ \A i \in 1..Len(log) :
       (log[i].ev = "update" /\ log[i].detail.kind \in {"datetime", "date"})
         => "kind" \in log[i].detail.changedProperties

\* an element that handled a tick as 'relative' was switched to 'date', and
\* the next tick did not reach it
C16_Witness ==
  /\ zooTimestamp.kind = "date" /\ zooTimestamp.isConnected
  /\ ~zooTimestamp.isListening /\ ~UpdateRunnable
  /\ Len(log) > 0
  /\ log[Len(log)].ev = "zoo-tick-60" /\ ~log[Len(log)].detail.handled
  /\ \E i \in HandledTicks : log[i].detail.kind = "relative"

(***************************************************************************)
(* The Conductor.  A view is known by its position in conductor.views;     *)
(* listeners counts the Conductor's listeners on it, and render() and      *)
(* dispose() of a view are calls that return.                              *)
(***************************************************************************)
\* the names views are registered and asked for under
ViewNames == {"dashboard", "detail"}

\* a view nobody has touched yet
NewView == [listeners |-> 0, disposed |-> FALSE, rendered |-> 0]

\* the views of c with view v in them
withView(c, v) == IF v \in DOMAIN c.views THEN c ELSE [c EXCEPT !.views = Append(c.views, NewView)]

\* a call made during switchView number k, and the active view at the time
Call(name, k, view, activeView) == Event(name, k, [view |-> view, activeView |-> activeView])

\* the active view is replaced without being let go
leaveActiveView(c, k) == [conductor |-> c, events |-> <<>>]

\* if (this.#activeView) {stopListeningTo; dispose; this.#activeView = null}
disposeActiveView(c, k) ==
  LET a == c.activeView
  IN IF a = NoView THEN [conductor |-> c, events |-> <<>>]
     ELSE [conductor |-> [c EXCEPT !.views[a].listeners = 0, !.views[a].disposed = TRUE,
                                   !.activeView = NoView],
           events |-> << Call("stopListeningTo", k, a, a), Call("dispose", k, a, a) >>]

\* initView(view): this.listen(view, View.viewEventCode(), ...)
initView(c, k, view) ==
  [conductor |-> [c EXCEPT !.views[view].listeners = @ + 1],
   events |-> << Call("listen", k, view, c.activeView) >>]

\* setActiveView(view)
setActiveView(c, k, view) ==
  LET let == disposeActiveView(c, k)
  IN [conductor |-> [let.conductor EXCEPT !.activeView = view,
                                          !.views[view].rendered = @ + 1],
      events |-> let.events \o << Call("render", k, view, view) >>]

\* switchView(view): setActiveView(initView(view))
switchView(view) ==
  LET k == ops + 1
      inited == initView(withView(conductor, view), k, view)
      active == setActiveView(inited.conductor, k, view)
  IN /\ ops' = k
     /\ conductor' = active.conductor
     /\ log' = log \o inited.events \o active.events

\* the application calls switchView with a view: a new one, the active one
\* or one it still holds
SwitchView(view) ==
  /\ binder = "none" /\ ops < MaxSwitches
  /\ view <= Len(conductor.views) + 1
  /\ switchView(view)
  /\ UNCHANGED othersThanConductor

\* registerViewConstructor(s, f)
RegisterViewConstructor(name) ==
  /\ binder = "none"
  /\ name \notin conductor.viewConstructorMap
  /\ conductor' = [conductor EXCEPT !.viewConstructorMap = @ \cup {name}]
  /\ UNCHANGED <<othersThanConductor, log, ops>>

\* a view the Conductor listens to raises 'switch_view' for a registered
\* name: the constructor makes a view and switchView is called with it
OnSwitchViewEvent(eView, name) ==
  /\ binder = "none" /\ ops < MaxSwitches
  /\ eView \in DOMAIN conductor.views /\ conductor.views[eView].listeners > 0
  /\ name \in conductor.viewConstructorMap
  /\ Len(conductor.views) < MaxViews
  /\ switchView(Len(conductor.views) + 1)
  /\ UNCHANGED othersThanConductor

\* navTo(item) after popstate, for a name the active view has no entry for
NavTo(name) ==
  /\ binder = "none" /\ ops < MaxSwitches
  /\ conductor.activeView # NoView
  /\ name \in conductor.viewConstructorMap
  /\ Len(conductor.views) < MaxViews
  /\ switchView(Len(conductor.views) + 1)
  /\ UNCHANGED othersThanConductor

\* a new Conductor
InitConductor ==
  /\ NoBinder
  /\ log = <<>>
  /\ ops = 0
  /\ pagination = NoPagination
  /\ importCache = NoImportCache
  /\ modal = NoModal
  /\ zooTimestamp = NoTimestamp
  /\ conductor = NoConductor

NextConductor ==
  \/ \E view \in 1..MaxViews : SwitchView(view)
  \/ \E name \in ViewNames : RegisterViewConstructor(name)
  \/ \E eView \in 1..MaxViews, name \in ViewNames : OnSwitchViewEvent(eView, name)
  \/ \E name \in ViewNames : NavTo(name)

SpecConductor == InitConductor /\ [][NextConductor]_vars

(***************************************************************************)
(* C17: one active view                                                    *)
(***************************************************************************)
\* the log positions of the calls made during switchView number k
CallsOf(k) == {i \in 1..Len(log) : log[i].call = k}

\* the view switchView number k was called with
ViewOf(k) == log[CHOOSE i \in CallsOf(k) : log[i].ev = "render"].detail.view

\* the active view when switchView number k was called
ActiveBefore(k) == log[CHOOSE i \in CallsOf(k) : log[i].ev = "listen"].detail.activeView

\* C17: the Conductor has at most one active view: in every switchView(v)
\* the view that was active is no longer listened to and is disposed before
\* v becomes the active view and is rendered, v is the active view when the
\* call returns, and every other view that was ever rendered is disposed
\* and not listened to
C17_OneActiveView ==
  /\ \A k \in 1..ops :
       LET a == ActiveBefore(k)
           rendering == CHOOSE i \in CallsOf(k) : log[i].ev = "render"
       IN /\ log[rendering].detail.activeView = ViewOf(k)
          /\ a # NoView =>
               /\ \E i \in CallsOf(k) : \E j \in CallsOf(k) :
                    /\ i < j /\ j < rendering
                    /\ log[i].ev = "stopListeningTo" /\ log[i].detail.view = a
                    /\ log[j].ev = "dispose" /\ log[j].detail.view = a
          /\ \A i \in CallsOf(k) :
               log[i].ev \in {"stopListeningTo", "dispose"} => log[i].detail.view = a
  /\ ops > 0 => conductor.activeView = ViewOf(ops)
  /\ \A v \in DOMAIN conductor.views :
       (v # conductor.activeView /\ conductor.views[v].rendered > 0)
         => conductor.views[v].disposed /\ conductor.views[v].listeners = 0

\* three views have been switched to in turn
C17_Witness ==
  /\ ops = 3
  /\ conductor.activeView = 3
  /\ conductor.views[1].disposed /\ conductor.views[2].disposed
  /\ ~conductor.views[3].disposed /\ conductor.views[3].listeners = 1
  /\ ActiveBefore(2) = 1 /\ ActiveBefore(3) = 2

(***************************************************************************)
(* C18: overlapping fetches through one binder                             *)
(***************************************************************************)
\* the positions in the log at which the response of a call was stored and
\* rendered
ResponsesRendered == {i \in 1..Len(log) : log[i].ev = "setData" /\ log[i].call # 0}

\* C18: the responses of the calls of one binder are rendered in the order
\* in which the calls were issued: the response of an older request is never
\* rendered after the response of a newer one, so that once all have
\* completed the data shown is that of the most recently issued request
C18_LatestRequestWins ==
  \A i \in ResponsesRendered : \A j \in ResponsesRendered :
     i < j => log[i].call < log[j].call

(***************************************************************************)
(* C19: a disposed DataBinder                                              *)
(***************************************************************************)
\* the positions in the log after which the binder was not used again:
\* a dispose() with no getData and no setData called after it
DisposedForGood ==
  {i \in 1..Len(log) :
     /\ log[i].ev = "dispose"
     /\ \A j \in (i + 1)..Len(log) :
          /\ log[j].ev # "data-loading"
          /\ ~(log[j].ev = "setData" /\ log[j].call = 0)}

\* C19: once dispose() has returned and the binder is not called again, its
\* template consumers stay empty and its data stays null, also when a
\* getData call that was in flight at the time completes afterwards
C19_NothingAfterDispose ==
  (binder = "DataBinder" /\ DisposedForGood # {}) =>
    /\ data = JNull
    /\ \A consumer \in Consumers : consumer.kids = <<>>

(***************************************************************************)
(* C20: consumers a render cannot serve                                    *)
(***************************************************************************)
\* a forest with the contents of its repeating sections left out
RECURSIVE WithoutSections(_)
WithoutSections(forest) ==
  [i \in 1..Len(forest) |->
     IF hasAttribute(forest[i], TemplateAttr)
     THEN [forest[i] EXCEPT !.text = "", !.kids = <<>>]
     ELSE [forest[i] EXCEPT !.kids = WithoutSections(forest[i].kids)]]

\* the paths of the repeating sections of the document that are still in it
\* after a render of json: those not below a section the render refills
SectionsKept(json) ==
  LET paths == PathsWith(root.kids, TemplateAttr, <<>>)
      all == {paths[q] : q \in 1..Len(paths)}
  IN {p \in all : ~\E q \in all : /\ IsPrefix(q, p) /\ q # p
                                   /\ Repeats(NodeAt(root.kids, q), json)}

\* a step that renders json takes the document from root to root' so that a
\* section the render skips keeps its text and children (but for what the
\* render does to sections nested in it) and every other section holds the
\* clones of its slice
SkipsAndRenders(json) ==
  \A p \in SectionsKept(json) :
     LET before == NodeAt(root.kids, p)
         after == NodeAt(root'.kids, p)
         items == SliceOf(before, json).a
     IN IF Repeats(before, json)
        THEN /\ after.text = ""
             /\ after.kids =
                  Flatten([k \in 1..Len(items) |-> CloneOf(before, items[k], k - 1)])
        ELSE /\ after.text = before.text
             /\ WithoutSections(after.kids) = WithoutSections(before.kids)

\* the payloads the step from log to log' has rendered
RenderedInStep ==
  {log'[i].detail.data : i \in {j \in (Len(log) + 1)..Len(log') : log'[j].ev = "setData"}}

\* C20: in every render, a repeating section whose template id is missing,
\* whose template is not found or is not a template element, or whose slice
\* of the data is not an array keeps the children it had, and every other
\* repeating section of the root is rendered all the same
C20_SkippedConsumersKeepChildren ==
  [][\A json \in RenderedInStep :
       (IF binder = "DataBinder" THEN Truthy(json) ELSE isDefAndNotNull(json))
         => SkipsAndRenders(json)]_vars

\* a render of a top-level array has filled the section of the whole payload
\* and skipped a section of 'results', which still shows the rows of the page
\* rendered before
C20_Witness ==
  /\ binder = "DataBinder"
  /\ RenderedNow
  /\ data = ListOnly
  /\ \E skipped \in Consumers : \E other \in Consumers :
       /\ ~Repeats(skipped, data)
       /\ TemplateOf(skipped) # NoElement
       /\ "ann" \in TextsOf(skipped.kids)
       /\ Repeats(other, data)
       /\ "zed" \in TextsOf(other.kids)

=============================================================================
